---------------------------- MODULE Spec2Model ----------------------------
(***************************************************************************)
(* Model of the charge-control logic of the smb235x charger driver         *)
(* (drivers/power/supply/qcom/smb235x-charger.c).                          *)
(*                                                                         *)
(* The chip structure, the registers the driver reads and writes, the      *)
(* negotiation peer ("tcpm") and the callers of the driver's entry points  *)
(* are the state.  Voltages are in microvolts, currents in microamps or    *)
(* milliamps exactly as in the source.  A register access or a peer query  *)
(* may fail: every access takes an "ok" input chosen by the environment.   *)
(***************************************************************************)
EXTENDS Integers, Sequences, FiniteSets, TLC

(***************************************************************************)
(* Program constants (the #defines at the top of the driver).              *)
(***************************************************************************)
CURRENT_STEP_MA == 50
MICRO_TO_MILLI == 1000
CDP_CURRENT_UA == 1500000
DCP_CURRENT_UA == 1500000
HVDCP_CURRENT_UA == 3000000
SDP_500_MA == 500000
BASED_VOLTAGE_UV == 5000000
QC3_DEFAULT_VOLTAGE_UV == 9000000
QC3_VOLTAGE_STEPS_UV == 200000
U8_MODULUS == 256

(***************************************************************************)
(* Bounds of the model.                                                    *)
(***************************************************************************)
\* largest value the pulse-count-max register field takes in the model
MaxPulseCountMax == 2

\* voltages a caller of the usb VOLTAGE_NOW property asks for: one below the
\* 5 V floor, the floor itself, and one above it that is no multiple of the
\* 200 mV step (the interrupt handler asks for the stored voltage, 9 V at
\* first, which is further above the base than any pulse count maximum)
TargetsUv == {4800000, 5000000, 5500000}

\* values the negotiation peer reports for CURRENT_MAX (microamps)
PeerCurrentsUa == {900000, 3000000}

\* values written to the usb SDP_CURRENT_MAX property (microamps)
SdpCurrentsUa == {0, 900000}

(***************************************************************************)
(* enum power_supply_type and enum power_supply_usb_type, in declaration   *)
(* order: the position of a name is its integer value.  The driver stores  *)
(* a usb_type integer into charger_type (line 256), so the order matters.  *)
(***************************************************************************)
PowerSupplyTypeEnum ==
    << "UNKNOWN", "BATTERY", "UPS", "MAINS", "USB", "USB_DCP", "USB_CDP",
       "USB_ACA", "USB_TYPE_C", "USB_PD", "USB_PD_DRP", "APPLE_BRICK_ID",
       "USB_HVDCP", "USB_HVDCP_3", "USB_FLOAT" >>

PowerSupplyUsbTypeEnum ==
    << "UT_UNKNOWN", "UT_SDP", "UT_DCP", "UT_CDP", "UT_ACA", "UT_C",
       "UT_PD", "UT_PD_DRP", "UT_PD_PPS", "UT_APPLE_BRICK_ID" >>

\* the integer value of an enumerator
EnumValue(enum, name) == (CHOOSE i \in DOMAIN enum : enum[i] = name) - 1

\* chip->charger_type = pval.intval: the power_supply_type whose integer
\* value is that of the usb type the peer reported
ChargerTypeOfUsbType(ut) ==
    PowerSupplyTypeEnum[EnumValue(PowerSupplyUsbTypeEnum, ut) + 1]

\* usb types the negotiation peer reports in the model
PeerUsbTypes == {"UT_C", "UT_PD", "UT_PD_PPS", "UT_DCP"}

(***************************************************************************)
(* Register bits.                                                          *)
(***************************************************************************)
\* the result bits of USB_APSP_RESULT_STATUS_REG kept by APSD_RESULT_STATUS_MASK
APSD_RESULT_STATUS_MASK ==
    {"FLOAT_CHARGER_BIT", "DCP_CHARGER_BIT", "OCP_CHARGER_BIT",
     "CDP_CHARGER_BIT", "SDP_CHARGER_BIT", "QC_3P0_BIT", "QC_2P0_BIT"}

\* the two bits of DCDC_POWER_PATH_STATUS_REG the driver tests
PowerPathBits == {"USE_USBIN_BIT", "VALID_INPUT_POWER_SOURCE_STS_BIT"}

(***************************************************************************)
(* Callers of smb235x_set_hvdcp3_voltage: two writers of the usb           *)
(* VOLTAGE_NOW property and the source-change interrupt handler.           *)
(***************************************************************************)
UserCallers == {"u1", "u2"}
Callers == UserCallers \cup {"irq"}

VARIABLES
    \* struct smb235x_chg_chip
    charger_type, usb_type, pd_active, hvdcp3_voltage_uv,
    based_hvdcp_voltage_uv, hvdcp_pulse_count_max, sdp_icl_ua, tcpm_psy,
    hvdcp_update_voltage_lock, work_pending, nb_registered,
    \* registers of the charger
    reg_power_path, reg_apsd_result, reg_apsd_done, reg_load_cfg_override,
    reg_icl_override, reg_current_limit, reg_force_9v,
    \* the negotiation peer
    tcpm_registered, tcpm_usb_type, tcpm_current_max,
    \* the accesses that may fail in this run
    faults,
    \* each caller of set_hvdcp3_voltage: position, argument, loop counter
    pc, voltage_uv, hvdcp_pulse_count,
    \* what the call in progress did so far: pulses written, base read at
    \* line 452 (0 on the other branch), voltage and base when the lock was
    \* taken, whether the base
    \* was reset from outside meanwhile, whether a call with another target
    \* returned success meanwhile
    inc_issued, dec_issued, base_seen, pre_hv, pre_base, interfered, saw_other,
    \* the last return of set_hvdcp3_voltage: "noop", "OK", "OK_overlap" (a
    \* success of a call during which a call with another target succeeded),
    \* "EIO", "EIO_after_pulses"
    hv_last_ret,
    \* the source-change handler: icl_ma local, return value, observation
    icl_ma, irq_ret, apsd_obs,
    \* observation of the last smb235x_get_chg_type call
    det_obs

chipv == << charger_type, usb_type, pd_active, sdp_icl_ua, tcpm_psy >>
hvstate == << hvdcp3_voltage_uv, based_hvdcp_voltage_uv, hvdcp_pulse_count_max,
              hvdcp_update_voltage_lock >>
workv == << work_pending, nb_registered >>
regin == << reg_power_path, reg_apsd_result, reg_apsd_done >>
regout == << reg_load_cfg_override, reg_icl_override, reg_current_limit,
             reg_force_9v >>
peerv == << tcpm_registered, tcpm_usb_type, tcpm_current_max >>
runv == << faults >>
callv == << pc, voltage_uv, hvdcp_pulse_count, inc_issued, dec_issued,
            base_seen, pre_hv, pre_base, interfered, saw_other, hv_last_ret >>
irqv == << icl_ma, irq_ret, apsd_obs >>

(***************************************************************************)
(* The battery property set.                                               *)
(***************************************************************************)
VARIABLES
    \* the charger status field of BATTERY_CHARGER_STATUS_1_REG
    reg_batt_status,
    \* observation of the last smb235x_get_prop_battery_status call
    batt_obs,
    \* CHGR_FAST_CHARGE_CURRENT_CFG_REG
    reg_fcc,
    \* chip->fastchg_curr_ua
    fastchg_curr_ua,
    \* chip->bms_psy is set
    bms_psy,
    \* a power supply named "bms" is registered
    bms_registered,
    \* observation of the last smb235x_set_fcc call
    fcc_obs,
    \* observation of the last smb235x_set_icl_sw call made for a write of
    \* the usb CURRENT_MAX property
    icl_obs,
    \* USBIN_PLUGIN_RT_STS_BIT of USB_INT_RT_STS_OFFSET_REG
    reg_usbin_plugin,
    \* CHARGING_ENABLE_BIT of CHARGING_ENABLE_CMD_REG
    reg_charging_enable,
    \* outcome of the read of USB_APSD_STATUS_REG that started the last run of
    \* the source-change handler: "none", "ok" or "fail"
    src_rd,
    \* observation of the last run of an interrupt handler other than the
    \* source-change handler
    irq_obs,
    \* entries of status_change_work in the system workqueue
    wq_queued,
    \* a worker is inside status_change_work
    wq_running,
    \* position of each running call of smb235x_tcpm_notifier_cb
    nb_pc,
    \* the arguments of each running call of smb235x_tcpm_notifier_cb
    nb_arg,
    \* where the driver is between smb235x_probe and smb235x_remove
    life,
    \* index in ChgInitSteps of the next step of smb235x_chg_init
    chg_init_idx,
    \* the steps of smb235x_chg_init that were entered and what each
    \* returned, in order
    steps_run,
    \* what smb235x_probe returned: "none", "OK" or an error
    probe_rc,
    \* chip->dt.chg_inhibit_thr_uv
    chg_inhibit_thr_uv,
    \* the usb and battery property sets are registered
    psy_registered,
    \* the interrupts smb235x_request_interrupts has requested
    irq_registered,
    \* the requested interrupts that are not disabled
    irq_enabled,
    \* smb235x_update_work: "idle", "queued", "running", "cancelling" (running
    \* with a cancel waiting for it) or "cancelled"
    upd_work,
    \* index in RemoveSteps of the next step of smb235x_remove
    remove_idx,
    \* the peer references smb235x_remove has released
    refs_put,
    \* observation of the last property get on the usb or battery set
    get_obs,
    \* chip->float_volt_uv and CHGR_FLOAT_VOLTAGE_CFG_REG
    float_volt_uv,
    reg_fv,
    \* CHGR_STEP_CHG_SOC_VBATT_V_REG
    reg_soc,
    \* observation of a set of a battery property, when it was the last of
    \* the sets and the runs of smb235x_update_work
    set_obs,
    \* observation of a run of smb235x_update_work, when it was the last
    cyc_obs,
    \* position of a caller inside smb235x_batt_set_prop when the function is
    \* followed statement by statement: "idle", or "fcc" / "fv" between the
    \* store of the value and the register write
    set_pc,
    \* position of the worker inside smb235x_update_fv_fcc when it is followed
    \* statement by statement, and the value it read from the fuel gauge
    rec_pc,
    rec_val,
    \* a write of the fast-charge-current or float-voltage register has failed
    write_failed

stepv == << set_pc, rec_pc, rec_val, write_failed >>

recv == << float_volt_uv, reg_fv, reg_soc, set_obs, cyc_obs, stepv >>

propv == << get_obs >>

lifev == << life, chg_init_idx, steps_run, probe_rc, chg_inhibit_thr_uv,
            psy_registered, irq_registered, irq_enabled, upd_work, remove_idx,
            refs_put >>

wqv == << wq_queued, wq_running, nb_pc, nb_arg >>

evtv == << reg_usbin_plugin, reg_charging_enable, src_rd, irq_obs >>

battv == << reg_batt_status, batt_obs >>

fccv == << reg_fcc, fastchg_curr_ua, bms_psy, bms_registered, fcc_obs,
           icl_obs >>

\* the state outside the detection, voltage and current-limit logic
extv == << battv, fccv, evtv, wqv, lifev, propv, recv >>

\* extv without the tuple of one property or subsystem
ext_but_battv == << fccv, evtv, wqv, lifev, propv, recv >>

ext_but_fccv == << battv, evtv, wqv, lifev, propv, recv >>

ext_but_evtv == << battv, fccv, wqv, lifev, propv, recv >>

ext_but_wqv == << battv, fccv, evtv, lifev, propv, recv >>

ext_but_lifev == << battv, fccv, evtv, wqv, propv, recv >>

ext_but_lifev_evtv == << battv, fccv, wqv, propv, recv >>

ext_but_propv == << battv, fccv, evtv, wqv, lifev, recv >>

ext_but_recv == << battv, evtv, wqv, lifev, propv >>

\* the state of the detection, voltage and current-limit logic
corev == << chipv, hvstate, workv, regin, regout, peerv, runv, callv, irqv,
            det_obs >>

vars == << corev, extv >>

\* the accesses of the driver that may fail
FaultNames ==
    {"soc_query", "soc_write", "soc_update_write", "fv_query", "fv_write",
     "prop_read", "peer_prop",
     "status_read", "power_path_read", "apsd_result_read", "force_9v_write",
     "icl_write_1", "icl_write_2", "icl_write_3", "pulse_write",
     "peer_usb_type", "peer_current_max", "batt_status_read", "bms_query",
     "fcc_write", "irq_status_read", "enable_write", "wdog_write",
     "init_access", "inhibit_write_1", "inhibit_write_2", "psy_register",
     "notifier_register", "irq_request"}

\* the outcomes of one access: it succeeds, or fails when its fault is on
Ok(name) == IF name \in faults THEN BOOLEAN ELSE {TRUE}

\* the first access to fail among those of names, or "none"
FirstFault(names) == {"none"} \cup (faults \cap names)

Failed(rc) == rc # "OK"

Min(a, b) == IF a < b THEN a ELSE b


(***************************************************************************)
(* smb235x_set_icl_sw: the two override bits, then the limit code.  The    *)
(* code is u8 stat = icl_ma / CURRENT_STEP_MA.  ok1..ok3 say whether the   *)
(* three register writes succeed.  The result is the return code and the   *)
(* three registers after the call.                                         *)
(***************************************************************************)
IclCode(ma) == (ma \div CURRENT_STEP_MA) % U8_MODULUS

\* variant: the limit code is written whatever happened to the override
\* bits
smb235x_set_icl_sw_code_always(ma, ok1, ok2, ok3) ==
    LET w1 == IF ok1 THEN << "USBIN_LOAD_CFG_REG" >> ELSE << >>
        w2 == IF ok2 THEN << "USB_CMD_ICL_OVERRIDE_REG" >> ELSE << >>
        w3 == IF ok3 THEN << "USBIN_CURRENT_LIMIT_CFG_REG" >> ELSE << >>
    IN  [rc |-> IF ok3 THEN "OK" ELSE "EIO",
         load |-> (ok1 \/ reg_load_cfg_override),
         ovr |-> (ok2 \/ reg_icl_override),
         code |-> IF ok3 THEN IclCode(ma) ELSE reg_current_limit,
         writes |-> w1 \o w2 \o w3]

\* writes: the registers written with success, in the order of the writes
smb235x_set_icl_sw(ma, ok1, ok2, ok3) ==
    IF ~ok1
    THEN [rc |-> "EIO", load |-> reg_load_cfg_override,
          ovr |-> reg_icl_override, code |-> reg_current_limit,
          writes |-> << >>]
    ELSE IF ~ok2
    THEN [rc |-> "EIO", load |-> TRUE,
          ovr |-> reg_icl_override, code |-> reg_current_limit,
          writes |-> << "USBIN_LOAD_CFG_REG" >>]
    ELSE IF ~ok3
    THEN [rc |-> "EIO", load |-> TRUE, ovr |-> TRUE,
          code |-> reg_current_limit,
          writes |-> << "USBIN_LOAD_CFG_REG", "USB_CMD_ICL_OVERRIDE_REG" >>]
    ELSE [rc |-> "OK", load |-> TRUE, ovr |-> TRUE, code |-> IclCode(ma),
          writes |-> << "USBIN_LOAD_CFG_REG", "USB_CMD_ICL_OVERRIDE_REG",
                        "USBIN_CURRENT_LIMIT_CFG_REG" >>]

(***************************************************************************)
(* smb235x_get_usb_online: a failed read of the power-path status counts   *)
(* as offline.                                                             *)
(***************************************************************************)
smb235x_get_usb_online(rd_ok) ==
    /\ rd_ok
    /\ "USE_USBIN_BIT" \in reg_power_path
    /\ "VALID_INPUT_POWER_SOURCE_STS_BIT" \in reg_power_path

(***************************************************************************)
(* smb235x_get_prop_from_tcpm: the peer handle is looked up on first use   *)
(* and cached; then the property is queried.  psy: the handle is cached;   *)
(* q_ok: the query succeeds; value: what the peer holds for the property.  *)
(***************************************************************************)
\* variant: the call that looks the handle up returns -EINVAL without the query
smb235x_get_prop_from_tcpm_lazy(psy, q_ok, value) ==
    IF ~psy
    THEN [rc |-> "EINVAL", val |-> "none", psy |-> tcpm_registered]
    ELSE IF ~q_ok
    THEN [rc |-> "EIO", val |-> "none", psy |-> TRUE]
    ELSE [rc |-> "OK", val |-> value, psy |-> TRUE]

smb235x_get_prop_from_tcpm(psy, q_ok, value) ==
    IF ~psy /\ ~tcpm_registered
    THEN [rc |-> "EINVAL", val |-> "none", psy |-> FALSE]
    ELSE IF ~q_ok
    THEN [rc |-> "EIO", val |-> "none", psy |-> TRUE]
    ELSE [rc |-> "OK", val |-> value, psy |-> TRUE]

(***************************************************************************)
(* The cascade of bit tests of smb235x_get_chg_type (lines 270-297): each  *)
(* test that matches overwrites the pair (charger_type, usb_type).         *)
(***************************************************************************)
ApsdBitTests ==
    << [bit |-> "FLOAT_CHARGER_BIT", ct |-> "USB_FLOAT", ut |-> "UT_UNKNOWN"],
       [bit |-> "DCP_CHARGER_BIT", ct |-> "USB_DCP", ut |-> "UT_DCP"],
       [bit |-> "OCP_CHARGER_BIT", ct |-> "USB_DCP", ut |-> "UT_DCP"],
       [bit |-> "CDP_CHARGER_BIT", ct |-> "USB_CDP", ut |-> "UT_CDP"],
       [bit |-> "SDP_CHARGER_BIT", ct |-> "USB", ut |-> "UT_SDP"],
       [bit |-> "QC_3P0_BIT", ct |-> "USB_HVDCP_3", ut |-> "UT_DCP"],
       [bit |-> "QC_2P0_BIT", ct |-> "USB_HVDCP", ut |-> "UT_DCP"] >>

\* variant: the first test that matches decides
RECURSIVE ApplyBitTests_first(_, _, _)
ApplyBitTests_first(cur, stat, i) ==
    IF i > Len(ApsdBitTests)
    THEN cur
    ELSE IF ApsdBitTests[i].bit \in stat
    THEN [ct |-> ApsdBitTests[i].ct, ut |-> ApsdBitTests[i].ut]
    ELSE ApplyBitTests_first(cur, stat, i + 1)

RECURSIVE ApplyBitTests(_, _, _)
ApplyBitTests(cur, stat, i) ==
    IF i > Len(ApsdBitTests)
    THEN cur
    ELSE ApplyBitTests(
             IF ApsdBitTests[i].bit \in stat
             THEN [ct |-> ApsdBitTests[i].ct, ut |-> ApsdBitTests[i].ut]
             ELSE cur,
             stat, i + 1)

(***************************************************************************)
(* smb235x_get_chg_type on a chip whose charger_type, usb_type and cached  *)
(* peer handle are ct, ut and psy.  pp_ok: the power-path status read      *)
(* succeeds; q_ok: the peer's USB_TYPE query succeeds; res_ok: the APSD    *)
(* result read succeeds.  The result holds the return code, the new        *)
(* charger_type, usb_type and peer handle, and what the call did.          *)
(***************************************************************************)
\* variant: an offline chip keeps its pair
OfflineResult_keep(ct, ut) == [ct |-> ct, ut |-> ut]

\* lines 246-247: what an offline chip's pair (charger_type, usb_type) becomes
OfflineResult(ct, ut) == [ct |-> "UNKNOWN", ut |-> "UT_UNKNOWN"]

\* variant: any answer of the peer ends the detection, Type-C included
PeerShortCircuits_any(peer) == ~Failed(peer.rc)

\* lines 252-255: the peer's answer ends the detection
PeerShortCircuits(peer) == ~Failed(peer.rc) /\ peer.val # "UT_C"

smb235x_get_chg_type(ct, ut, psy, pp_ok, q_ok, res_ok) ==
    LET online == smb235x_get_usb_online(pp_ok)
        peer == smb235x_get_prop_from_tcpm(psy, q_ok, tcpm_usb_type)
        stat == reg_apsd_result \cap APSD_RESULT_STATUS_MASK
        auto == ApplyBitTests([ct |-> ct, ut |-> ut], stat, 1)
        pp_rc == IF pp_ok THEN "OK" ELSE "EIO"
    IN  IF ~online
        THEN [rc |-> "OK", ct |-> OfflineResult(ct, ut).ct,
              ut |-> OfflineResult(ct, ut).ut,
              psy |-> psy, online |-> FALSE, peer_rc |-> "none",
              read_apsd |-> FALSE, pp_rc |-> pp_rc]
        ELSE IF PeerShortCircuits(peer)
        THEN [rc |-> "OK", ct |-> ChargerTypeOfUsbType(peer.val),
              ut |-> peer.val, psy |-> peer.psy, online |-> TRUE,
              peer_rc |-> peer.rc, read_apsd |-> FALSE, pp_rc |-> pp_rc]
        ELSE IF ~res_ok
        THEN [rc |-> "EIO", ct |-> ct, ut |-> ut, psy |-> peer.psy,
              online |-> TRUE, peer_rc |-> peer.rc, read_apsd |-> TRUE,
              pp_rc |-> pp_rc]
        ELSE [rc |-> "OK", ct |-> auto.ct, ut |-> auto.ut, psy |-> peer.psy,
              online |-> TRUE, peer_rc |-> peer.rc, read_apsd |-> TRUE,
              pp_rc |-> pp_rc]

\* what an observer keeps of the last smb235x_get_chg_type call, for as
\* long as nothing else has changed the registers, the peer or the chip
DetectObservation(d) ==
    [ran |-> TRUE, rc |-> d.rc, online |-> d.online, peer_rc |-> d.peer_rc,
     read_apsd |-> d.read_apsd, pp_rc |-> d.pp_rc]

NoDetectObservation ==
    [ran |-> FALSE, rc |-> "OK", online |-> FALSE, peer_rc |-> "none",
     read_apsd |-> FALSE, pp_rc |-> "OK"]


(***************************************************************************)
(* smb235x_set_hvdcp3_voltage, one step per statement that touches shared  *)
(* state.  Positions of a caller:                                          *)
(*   "lock"      waiting at mutex_lock (line 449)                          *)
(*   "calc_up"   the test of line 451 was true, count not yet computed     *)
(*   "calc_down" the test of line 451 was false, count not yet computed    *)
(*   "inc"/"dec" in the pulse loop of lines 456-466 / 470-480              *)
(*   "store_v"   before line 483;  "store_b" before line 484               *)
(*   "unlock"    before line 486                                           *)
(* and outside the function "idle", or for the interrupt handler "post",   *)
(* the rest of smb235x_handle_apsd_done after the call.                    *)
(***************************************************************************)
InCritical == {"calc_up", "calc_down", "inc", "dec", "store_v", "store_b", "unlock"}
InCall == InCritical \cup {"lock"}

\* where a caller continues when the function returns
ReturnTo(c) == IF c = "irq" THEN "post" ELSE "idle"

\* variant: a lock that never makes a caller wait
mutex_lock_nolock(lock) == TRUE

\* mutex_lock(&chip->hvdcp_update_voltage_lock) can proceed
mutex_lock(lock) == lock = "free"

\* variant: the increment count without the clamp of lines 453-454
IncrementCount_noclamp(target, base, max) ==
    (target - base) \div QC3_VOLTAGE_STEPS_UV

\* lines 452-454: the increment count, clamped to hvdcp_pulse_count_max
IncrementCount(target, base, max) ==
    LET n == (target - base) \div QC3_VOLTAGE_STEPS_UV
    IN  IF n > max THEN max ELSE n

\* line 468: the decrement count
DecrementCount(target, voltage) == (voltage - target) \div QC3_VOLTAGE_STEPS_UV

\* the per-call records of caller c are cleared when it returns
ClearCall(c) ==
    /\ hvdcp_pulse_count' = [hvdcp_pulse_count EXCEPT ![c] = 0]
    /\ inc_issued' = [inc_issued EXCEPT ![c] = 0]
    /\ dec_issued' = [dec_issued EXCEPT ![c] = 0]
    /\ base_seen' = [base_seen EXCEPT ![c] = 0]
    /\ pre_hv' = [pre_hv EXCEPT ![c] = 0]
    /\ pre_base' = [pre_base EXCEPT ![c] = 0]
    /\ interfered' = [interfered EXCEPT ![c] = FALSE]
    /\ voltage_uv' = [voltage_uv EXCEPT ![c] = 0]

\* entry: line 446 returns at once below 5 V, otherwise the caller goes on
\* to mutex_lock.  Only the callers' variables change.
HvEnter(c, v) ==
    IF v < BASED_VOLTAGE_UV
    THEN /\ hv_last_ret' = "noop"
         /\ pc' = [pc EXCEPT ![c] = ReturnTo(c)]
         /\ UNCHANGED << voltage_uv, hvdcp_pulse_count, inc_issued, dec_issued,
                         base_seen, pre_hv, pre_base, interfered, saw_other >>
    ELSE /\ pc' = [pc EXCEPT ![c] = "lock"]
         /\ voltage_uv' = [voltage_uv EXCEPT ![c] = v]
         /\ saw_other' = [saw_other EXCEPT ![c] = FALSE]
         /\ UNCHANGED << hvdcp_pulse_count, inc_issued, dec_issued, base_seen,
                         pre_hv, pre_base, interfered, hv_last_ret >>

\* lines 449-451: take the lock and test the target against the base
HvLock(c) ==
    /\ pc[c] = "lock"
    /\ mutex_lock(hvdcp_update_voltage_lock)
    /\ hvdcp_update_voltage_lock' = c
    /\ pc' = [pc EXCEPT ![c] = IF voltage_uv[c] > based_hvdcp_voltage_uv
                                 THEN "calc_up" ELSE "calc_down"]
    /\ pre_hv' = [pre_hv EXCEPT ![c] = hvdcp3_voltage_uv]
    /\ pre_base' = [pre_base EXCEPT ![c] = based_hvdcp_voltage_uv]
    /\ interfered' = [interfered EXCEPT ![c] = FALSE]
    /\ UNCHANGED << chipv, hvdcp3_voltage_uv, based_hvdcp_voltage_uv,
                    hvdcp_pulse_count_max, workv, regin, regout, peerv, runv, extv,
                    voltage_uv, hvdcp_pulse_count, inc_issued, dec_issued,
                    base_seen, saw_other, hv_last_ret, irqv, det_obs >>

\* lines 452-454
HvCalcUp(c) ==
    /\ pc[c] = "calc_up"
    /\ hvdcp_pulse_count' = [hvdcp_pulse_count EXCEPT ![c] =
           IncrementCount(voltage_uv[c], based_hvdcp_voltage_uv,
                          hvdcp_pulse_count_max)]
    /\ base_seen' = [base_seen EXCEPT ![c] = based_hvdcp_voltage_uv]
    /\ pc' = [pc EXCEPT ![c] = "inc"]
    /\ UNCHANGED << chipv, hvstate, workv, regin, regout, peerv, runv, extv,
                    voltage_uv, inc_issued, dec_issued, pre_hv, pre_base,
                    interfered, saw_other, hv_last_ret, irqv, det_obs >>

\* line 468
HvCalcDown(c) ==
    /\ pc[c] = "calc_down"
    /\ hvdcp_pulse_count' = [hvdcp_pulse_count EXCEPT ![c] =
           DecrementCount(voltage_uv[c], hvdcp3_voltage_uv)]
    /\ pc' = [pc EXCEPT ![c] = "dec"]
    /\ UNCHANGED << chipv, hvstate, workv, regin, regout, peerv, runv, extv,
                    voltage_uv, inc_issued, dec_issued, base_seen, pre_hv, pre_base,
                    interfered, saw_other, hv_last_ret, irqv, det_obs >>

\* variant: a failed pulse write that stores the target before it returns
PulseFailureEffect_store(c) ==
    /\ hvdcp_update_voltage_lock' = "free"
    /\ hvdcp3_voltage_uv' = voltage_uv[c]
    /\ UNCHANGED based_hvdcp_voltage_uv

\* what a failed pulse write does to the voltage, the base and the lock
\* (lines 459-464 and 473-478): nothing but mutex_unlock
PulseFailureEffect(c) ==
    /\ hvdcp_update_voltage_lock' = "free"
    /\ UNCHANGED << hvdcp3_voltage_uv, based_hvdcp_voltage_uv >>

\* the return with the error
PulseFailure(c) ==
    /\ PulseFailureEffect(c)
    /\ pc' = [pc EXCEPT ![c] = ReturnTo(c)]
    /\ hv_last_ret' = IF inc_issued[c] + dec_issued[c] > 0
                      THEN "EIO_after_pulses" ELSE "EIO"
    /\ ClearCall(c)
    /\ saw_other' = [saw_other EXCEPT ![c] = FALSE]

\* one turn of while (hvdcp_pulse_count--) with a SINGLE_INCREMENT_BIT write
HvPulseInc(c) ==
    /\ pc[c] = "inc"
    /\ hvdcp_pulse_count[c] # 0
    /\ \E ok \in Ok("pulse_write") :
          IF ok
          THEN /\ hvdcp_pulse_count' = [hvdcp_pulse_count EXCEPT ![c] = @ - 1]
               /\ inc_issued' = [inc_issued EXCEPT ![c] = @ + 1]
               /\ UNCHANGED << pc, voltage_uv, dec_issued, base_seen, pre_hv,
                               pre_base, interfered, saw_other, hv_last_ret,
                               hvdcp3_voltage_uv, based_hvdcp_voltage_uv,
                               hvdcp_update_voltage_lock >>
          ELSE PulseFailure(c)
    /\ UNCHANGED << chipv, hvdcp_pulse_count_max, workv, regin, regout, peerv,
                    runv, extv, irqv, det_obs >>

\* one turn of while (hvdcp_pulse_count--) with a SINGLE_DECREMENT_BIT write
HvPulseDec(c) ==
    /\ pc[c] = "dec"
    /\ hvdcp_pulse_count[c] # 0
    /\ \E ok \in Ok("pulse_write") :
          IF ok
          THEN /\ hvdcp_pulse_count' = [hvdcp_pulse_count EXCEPT ![c] = @ - 1]
               /\ dec_issued' = [dec_issued EXCEPT ![c] = @ + 1]
               /\ UNCHANGED << pc, voltage_uv, inc_issued, base_seen, pre_hv,
                               pre_base, interfered, saw_other, hv_last_ret,
                               hvdcp3_voltage_uv, based_hvdcp_voltage_uv,
                               hvdcp_update_voltage_lock >>
          ELSE PulseFailure(c)
    /\ UNCHANGED << chipv, hvdcp_pulse_count_max, workv, regin, regout, peerv,
                    runv, extv, irqv, det_obs >>

\* the loop test fails: the counter is 0 (it is dead from here on)
HvLoopExit(c) ==
    /\ pc[c] \in {"inc", "dec"}
    /\ hvdcp_pulse_count[c] = 0
    /\ pc' = [pc EXCEPT ![c] = "store_v"]
    /\ UNCHANGED << chipv, hvstate, workv, regin, regout, peerv, runv, extv,
                    voltage_uv, hvdcp_pulse_count, inc_issued, dec_issued,
                    base_seen, pre_hv, pre_base, interfered, saw_other,
                    hv_last_ret, irqv,
                    det_obs >>

\* line 483
HvStoreVoltage(c) ==
    /\ pc[c] = "store_v"
    /\ hvdcp3_voltage_uv' = voltage_uv[c]
    /\ pc' = [pc EXCEPT ![c] = "store_b"]
    /\ UNCHANGED << chipv, based_hvdcp_voltage_uv, hvdcp_pulse_count_max,
                    hvdcp_update_voltage_lock, workv, regin, regout, peerv,
                    runv, extv, voltage_uv, hvdcp_pulse_count, inc_issued,
                    dec_issued, base_seen, pre_hv, pre_base, interfered,
                    saw_other, hv_last_ret, irqv,
                    det_obs >>

\* line 484
HvStoreBase(c) ==
    /\ pc[c] = "store_b"
    /\ based_hvdcp_voltage_uv' = voltage_uv[c]
    /\ pc' = [pc EXCEPT ![c] = "unlock"]
    /\ UNCHANGED << chipv, hvdcp3_voltage_uv, hvdcp_pulse_count_max,
                    hvdcp_update_voltage_lock, workv, regin, regout, peerv,
                    runv, extv, voltage_uv, hvdcp_pulse_count, inc_issued,
                    dec_issued, base_seen, pre_hv, pre_base, interfered,
                    saw_other, hv_last_ret, irqv,
                    det_obs >>

\* lines 486-488: unlock and return 0
HvUnlock(c) ==
    /\ pc[c] = "unlock"
    /\ hvdcp_update_voltage_lock' = "free"
    /\ hv_last_ret' = IF saw_other[c] THEN "OK_overlap" ELSE "OK"
    /\ saw_other' = [d \in Callers |->
                        IF d = c THEN FALSE
                        ELSE saw_other[d] \/ (pc[d] \in InCall
                                              /\ voltage_uv[d] # voltage_uv[c])]
    /\ pc' = [pc EXCEPT ![c] = ReturnTo(c)]
    /\ ClearCall(c)
    /\ UNCHANGED << chipv, hvdcp3_voltage_uv, based_hvdcp_voltage_uv,
                    hvdcp_pulse_count_max, workv, regin, regout, peerv, runv, extv,
                    irqv, det_obs >>

\* any step of any caller inside smb235x_set_hvdcp3_voltage
HvStep ==
    \E c \in Callers :
        \/ HvLock(c)
        \/ HvCalcUp(c)
        \/ HvCalcDown(c)
        \/ HvPulseInc(c)
        \/ HvPulseDec(c)
        \/ HvLoopExit(c)
        \/ HvStoreVoltage(c)
        \/ HvStoreBase(c)
        \/ HvUnlock(c)

\* the steps of the call made by smb235x_handle_apsd_done (line 534) when no
\* one else calls the function: its target is the stored voltage, so the
\* count of line 468 is 0 and the decrement loop ends without a pulse
HvStepOfApsdDone ==
    \/ HvLock("irq")
    \/ HvCalcUp("irq")
    \/ HvCalcDown("irq")
    \/ HvPulseInc("irq")
    \/ HvLoopExit("irq")
    \/ HvStoreVoltage("irq")
    \/ HvStoreBase("irq")
    \/ HvUnlock("irq")

(***************************************************************************)
(* smb235x_set_prop_usb_voltage_now (through smb235x_usb_set_prop): only   *)
(* an HVDCP3 charger takes the request.                                    *)
(***************************************************************************)
smb235x_set_prop_usb_voltage_now(c, v) ==
    /\ c \in UserCallers
    /\ pc[c] = "idle"
    /\ IF charger_type = "USB_HVDCP_3"
       THEN HvEnter(c, v)
       ELSE UNCHANGED callv
    /\ UNCHANGED << chipv, hvstate, workv, regin, regout, peerv, runv, extv, irqv,
                    det_obs >>


(***************************************************************************)
(* smb235x_handle_apsd_done, the per-type table of lines 508-541.          *)
(***************************************************************************)
\* variant: a table that gives DCP 500 mA
ApsdTableIclMa_dcp500(ct, sdp) ==
    CASE ct = "USB" ->
             IF sdp # 0 THEN sdp \div MICRO_TO_MILLI
             ELSE SDP_500_MA \div MICRO_TO_MILLI
      [] ct = "USB_CDP" -> CDP_CURRENT_UA \div MICRO_TO_MILLI
      [] ct = "USB_DCP" -> SDP_500_MA \div MICRO_TO_MILLI
      [] ct = "USB_FLOAT" -> SDP_500_MA \div MICRO_TO_MILLI
      [] ct = "USB_HVDCP" -> HVDCP_CURRENT_UA \div MICRO_TO_MILLI
      [] ct = "USB_HVDCP_3" -> HVDCP_CURRENT_UA \div MICRO_TO_MILLI
      [] OTHER -> SDP_500_MA \div MICRO_TO_MILLI

ApsdTableIclMa(ct, sdp) ==
    CASE ct = "USB" ->
             IF sdp # 0 THEN sdp \div MICRO_TO_MILLI
             ELSE SDP_500_MA \div MICRO_TO_MILLI
      [] ct = "USB_CDP" -> CDP_CURRENT_UA \div MICRO_TO_MILLI
      [] ct = "USB_DCP" -> DCP_CURRENT_UA \div MICRO_TO_MILLI
      [] ct = "USB_FLOAT" -> SDP_500_MA \div MICRO_TO_MILLI
      [] ct = "USB_HVDCP" -> HVDCP_CURRENT_UA \div MICRO_TO_MILLI
      [] ct = "USB_HVDCP_3" -> HVDCP_CURRENT_UA \div MICRO_TO_MILLI
      [] OTHER -> SDP_500_MA \div MICRO_TO_MILLI

(***************************************************************************)
(* Lines 543-558: the peer override and the programming of the limit.      *)
(* psy: the peer handle is cached; pd: chip->pd_active; icl: the table's   *)
(* value; cm_ok: the peer's CURRENT_MAX query succeeds; w1..w3: the three  *)
(* writes of smb235x_set_icl_sw succeed.                                   *)
(***************************************************************************)
\* variant: the table's value is programmed whatever pd_active is
ApsdProgramIcl_nooverride(psy, pd, icl, cm_ok, w1, w2, w3) ==
    LET w == smb235x_set_icl_sw(icl, w1, w2, w3)
    IN  [called |-> TRUE, psy |-> psy, rc |-> w.rc, load |-> w.load,
         ovr |-> w.ovr, code |-> w.code]

ApsdProgramIcl(psy, pd, icl, cm_ok, w1, w2, w3) ==
    LET peer == smb235x_get_prop_from_tcpm(psy, cm_ok, tcpm_current_max)
        ma == IF pd THEN peer.val \div MICRO_TO_MILLI ELSE icl
        w == smb235x_set_icl_sw(ma, w1, w2, w3)
    IN  IF pd /\ Failed(peer.rc)
        THEN [called |-> FALSE, psy |-> peer.psy, rc |-> "none",
              load |-> reg_load_cfg_override, ovr |-> reg_icl_override,
              code |-> reg_current_limit]
        ELSE [called |-> TRUE, psy |-> IF pd THEN peer.psy ELSE psy,
              rc |-> w.rc, load |-> w.load, ovr |-> w.ovr, code |-> w.code]

\* variant: the base is left alone
ApsdDoneBase_keep(ct, base) == base

\* lines 505-506: the base after a detection that gave the type ct
ApsdDoneBase(ct, base) ==
    IF ct # "USB_HVDCP_3" THEN BASED_VOLTAGE_UV ELSE base

\* what an observer keeps of the last detection-done handling, for as long
\* as nothing else has changed the registers, the peer or the chip:
\*   stage      "mid" inside smb235x_set_hvdcp3_voltage, "done" at the end,
\*              "aborted" after a return of line 502 or 529
\*   force9v    the FORCE_9V_BIT write was made
\*   hv_target  the argument of smb235x_set_hvdcp3_voltage, 0 when not called
\*   pd         chip->pd_active at line 543
\*   wrote      the limit code was written
\*   all_ok     every register access of the handling succeeded
NoApsdObservation ==
    [stage |-> "none", force9v |-> FALSE, hv_target |-> 0, pd |-> FALSE,
     wrote |-> FALSE, all_ok |-> FALSE]

ApsdProgramObservation(obs, pd, p, ok) ==
    IF obs.stage = "none"
    THEN obs
    ELSE [obs EXCEPT !.stage = "done", !.pd = pd, !.wrote = (p.rc = "OK"),
                     !.all_ok = obs.all_ok /\ ok]

(***************************************************************************)
(* smb235x_handle_apsd_done with done set, up to the point where it either *)
(* finishes or enters smb235x_set_hvdcp3_voltage (which may wait for the   *)
(* lock).                                                                  *)
(*   pp_ok, q_ok, res_ok   the accesses of smb235x_get_chg_type succeed    *)
(*   f9_ok   the FORCE_9V_BIT write succeeds                               *)
(*   cm_ok, w1, w2, w3     the accesses of lines 543-558 succeed           *)
(***************************************************************************)
smb235x_handle_apsd_done(pp_ok, q_ok, res_ok, f9_ok, cm_ok, w1, w2, w3) ==
    LET d == smb235x_get_chg_type(charger_type, usb_type, tcpm_psy,
                                  pp_ok, q_ok, res_ok)
        icl == ApsdTableIclMa(d.ct, sdp_icl_ua)
        p == ApsdProgramIcl(d.psy, pd_active, icl, cm_ok, w1, w2, w3)
        obs0 == [NoApsdObservation EXCEPT !.stage = "mid", !.all_ok = pp_ok]
    IN  /\ det_obs' = DetectObservation(d)
        /\ tcpm_psy' = d.psy
        /\ IF Failed(d.rc)
           THEN \* line 502: detection failed, nothing else happens
                /\ irq_ret' = "IRQ_HANDLED"
                /\ apsd_obs' = [NoApsdObservation EXCEPT !.stage = "aborted"]
                /\ UNCHANGED << charger_type, usb_type, hvstate, regout,
                                callv, icl_ma >>
           ELSE /\ charger_type' = d.ct
                /\ usb_type' = d.ut
                /\ IF d.ct = "USB_HVDCP_3"
                   THEN \* line 534: the stored target is the argument
                        /\ HvEnter("irq", hvdcp3_voltage_uv)
                        /\ icl_ma' = icl
                        /\ irq_ret' = "none"
                        /\ apsd_obs' = [obs0 EXCEPT
                                           !.hv_target = hvdcp3_voltage_uv]
                        /\ UNCHANGED << hvstate, regout >>
                   ELSE \* lines 505-506: the base is reset outside the lock
                        /\ based_hvdcp_voltage_uv' =
                               ApsdDoneBase(d.ct, based_hvdcp_voltage_uv)
                        /\ interfered' = [c \in Callers |->
                                            interfered[c] \/ pc[c] \in InCritical]
                        /\ UNCHANGED << hvdcp3_voltage_uv, hvdcp_pulse_count_max,
                                        hvdcp_update_voltage_lock, pc,
                                        voltage_uv, hvdcp_pulse_count,
                                        inc_issued, dec_issued, base_seen,
                                        pre_hv, pre_base, saw_other,
                                        hv_last_ret,
                                        icl_ma >>
                        /\ irq_ret' = "IRQ_HANDLED"
                        /\ IF d.ct = "USB_HVDCP" /\ ~f9_ok
                           THEN \* line 529
                                /\ apsd_obs' = [obs0 EXCEPT !.stage = "aborted"]
                                /\ UNCHANGED regout
                           ELSE /\ reg_force_9v' =
                                      (reg_force_9v \/ d.ct = "USB_HVDCP")
                                /\ reg_load_cfg_override' = p.load
                                /\ reg_icl_override' = p.ovr
                                /\ reg_current_limit' = p.code
                                /\ apsd_obs' = ApsdProgramObservation(
                                       [obs0 EXCEPT !.force9v = (d.ct = "USB_HVDCP")],
                                       pd_active, p, w1 /\ w2 /\ w3)

(***************************************************************************)
(* smb235x_usb_source_change_irq_handler.  At most one of the accesses     *)
(* that end the handling fails (the ones after it are not made).           *)
(***************************************************************************)
smb235x_usb_source_change_irq_handler ==
    /\ pc["irq"] = "idle"
    /\ \E pp_ok \in Ok("power_path_read"), q_ok \in Ok("peer_usb_type"),
          f \in FirstFault({"status_read", "apsd_result_read",
                            "force_9v_write", "peer_current_max",
                            "icl_write_1", "icl_write_2", "icl_write_3"}) :
          /\ src_rd' = (IF f = "status_read" THEN "fail" ELSE "ok")
          /\ IF f = "status_read"
             THEN \* line 573
                  /\ irq_ret' = "IRQ_NONE"
                  /\ apsd_obs' = NoApsdObservation
                  /\ det_obs' = NoDetectObservation
                  /\ UNCHANGED << chipv, hvstate, regout, callv, icl_ma >>
             ELSE IF ~reg_apsd_done
             THEN \* line 497
                  /\ irq_ret' = "IRQ_HANDLED"
                  /\ apsd_obs' = NoApsdObservation
                  /\ det_obs' = NoDetectObservation
                  /\ UNCHANGED << chipv, hvstate, regout, callv, icl_ma >>
             ELSE /\ smb235x_handle_apsd_done(
                         pp_ok, q_ok, f # "apsd_result_read",
                         f # "force_9v_write", f # "peer_current_max",
                         f # "icl_write_1", f # "icl_write_2", f # "icl_write_3")
                  /\ UNCHANGED << pd_active, sdp_icl_ua >>
    /\ UNCHANGED << workv, regin, peerv, runv, ext_but_evtv, reg_usbin_plugin,
                    reg_charging_enable, irq_obs >>

(***************************************************************************)
(* The rest of smb235x_handle_apsd_done after smb235x_set_hvdcp3_voltage   *)
(* returned (lines 535-558), and the handler's return.                     *)
(***************************************************************************)
ApsdDoneAfterHvdcp3 ==
    /\ pc["irq"] = "post"
    /\ \E f \in FirstFault({"peer_current_max", "icl_write_1", "icl_write_2",
                            "icl_write_3"}) :
          LET p == ApsdProgramIcl(tcpm_psy, pd_active, icl_ma,
                                  f # "peer_current_max", f # "icl_write_1",
                                  f # "icl_write_2", f # "icl_write_3")
          IN  /\ tcpm_psy' = p.psy
              /\ reg_load_cfg_override' = p.load
              /\ reg_icl_override' = p.ovr
              /\ reg_current_limit' = p.code
              /\ apsd_obs' = ApsdProgramObservation(
                     apsd_obs, pd_active, p, f = "none")
    /\ pc' = [pc EXCEPT !["irq"] = "idle"]
    /\ irq_ret' = "IRQ_HANDLED"
    /\ icl_ma' = 0
    /\ UNCHANGED << charger_type, usb_type, pd_active, sdp_icl_ua, hvstate,
                    workv, regin, reg_force_9v, peerv, runv, extv, voltage_uv,
                    hvdcp_pulse_count, inc_issued, dec_issued, base_seen,
                    pre_hv, pre_base, interfered, saw_other, hv_last_ret, det_obs >>


\* the observations are dropped when something other than the observed
\* operation changes what they are compared with
ForgetObservations ==
    /\ apsd_obs' = NoApsdObservation
    /\ det_obs' = NoDetectObservation

(***************************************************************************)
(* smb235x_tcpm_update_icl, run by status_change_work.  The result of the  *)
(* CURRENT_MAX query is not tested (line 1776): when it fails, pval still  *)
(* holds the integer of the USB_TYPE answer.                               *)
(***************************************************************************)
\* variant: every answer of the peer sets pd_active
PdActiveOfUsbType_any(ut) == TRUE

\* line 1768: pval.intval != POWER_SUPPLY_USB_TYPE_C
PdActiveOfUsbType(ut) == ut # "UT_C"

smb235x_tcpm_update_icl(q_ok, cm_ok, w1, w2, w3) ==
    LET t == smb235x_get_prop_from_tcpm(tcpm_psy, q_ok, tcpm_usb_type)
        cm == smb235x_get_prop_from_tcpm(t.psy, cm_ok, tcpm_current_max)
        intval == IF Failed(cm.rc)
                  THEN EnumValue(PowerSupplyUsbTypeEnum, t.val)
                  ELSE cm.val
        w == smb235x_set_icl_sw(intval \div MICRO_TO_MILLI, w1, w2, w3)
    IN  /\ tcpm_psy' = t.psy
        /\ IF Failed(t.rc)
           THEN UNCHANGED << pd_active, regout >>
           ELSE IF ~PdActiveOfUsbType(t.val)
           THEN /\ pd_active' = FALSE
                /\ UNCHANGED regout
           ELSE /\ pd_active' = TRUE
                /\ reg_load_cfg_override' = w.load
                /\ reg_icl_override' = w.ovr
                /\ reg_current_limit' = w.code
                /\ UNCHANGED reg_force_9v

status_change_work ==
    /\ work_pending
    /\ work_pending' = FALSE
    /\ \E q_ok \in Ok("peer_usb_type"),
          f \in FirstFault({"peer_current_max", "icl_write_1", "icl_write_2",
                            "icl_write_3"}) :
          smb235x_tcpm_update_icl(q_ok, f # "peer_current_max",
                                  f # "icl_write_1", f # "icl_write_2",
                                  f # "icl_write_3")
    /\ ForgetObservations
    /\ UNCHANGED << charger_type, usb_type, sdp_icl_ua, hvstate, nb_registered,
                    regin, peerv, runv, extv, callv, icl_ma, irq_ret >>

(***************************************************************************)
(* smb235x_tcpm_notifier_cb: called, once the notifier block is            *)
(* registered, for every power-supply event of every supply.  prop_changed *)
(* says the event is PSY_EVENT_PROP_CHANGED, from_tcpm that the supply is  *)
(* the negotiation peer.                                                   *)
(***************************************************************************)
smb235x_tcpm_notifier_cb(prop_changed, from_tcpm) ==
    /\ nb_registered
    /\ work_pending' = (work_pending \/ (prop_changed /\ from_tcpm))
    /\ UNCHANGED << chipv, hvstate, nb_registered, regin, regout, peerv, runv, extv,
                    callv, irqv, det_obs >>

(***************************************************************************)
(* smb235x_usb_set_prop, SDP_CURRENT_MAX and CURRENT_MAX: the value in     *)
(* milliamps is kept in a u8 (line 1313) before smb235x_set_icl_sw.        *)
(***************************************************************************)
smb235x_set_prop_usb_input_current_limit(ua, w1, w2, w3) ==
    LET w == smb235x_set_icl_sw((ua \div MICRO_TO_MILLI) % U8_MODULUS, w1, w2, w3)
    IN  /\ reg_load_cfg_override' = w.load
        /\ reg_icl_override' = w.ovr
        /\ reg_current_limit' = w.code
        /\ UNCHANGED reg_force_9v

UsbSetSdpCurrentMax(ua) ==
    /\ sdp_icl_ua' = ua
    /\ \E f \in FirstFault({"icl_write_1", "icl_write_2", "icl_write_3"}) :
          smb235x_set_prop_usb_input_current_limit(
              ua, f # "icl_write_1", f # "icl_write_2", f # "icl_write_3")
    /\ ForgetObservations
    /\ UNCHANGED << charger_type, usb_type, pd_active, tcpm_psy, hvstate,
                    workv, regin, peerv, runv, extv, callv, icl_ma, irq_ret >>

(***************************************************************************)
(* smb235x_usb_get_prop, REAL_TYPE or USB_TYPE: one call of                *)
(* smb235x_get_chg_type.                                                   *)
(***************************************************************************)
UsbGetRealType ==
    /\ \E pp_ok \in Ok("power_path_read"), q_ok \in Ok("peer_usb_type"),
          res_ok \in Ok("apsd_result_read") :
          LET d == smb235x_get_chg_type(charger_type, usb_type, tcpm_psy,
                                        pp_ok, q_ok, res_ok)
          IN  /\ charger_type' = d.ct
              /\ usb_type' = d.ut
              /\ tcpm_psy' = d.psy
              /\ det_obs' = DetectObservation(d)
    /\ apsd_obs' = NoApsdObservation
    /\ UNCHANGED << pd_active, sdp_icl_ua, hvstate, workv, regin, regout,
                    peerv, runv, extv, callv, icl_ma, irq_ret >>

(***************************************************************************)
(* The environment: the charger's status registers and the peer change.    *)
(***************************************************************************)
\* the APSD result register takes another value of the set results
ApsdResultChanges(results) ==
    /\ reg_apsd_result' \in results \ {reg_apsd_result}
    /\ ForgetObservations
    /\ UNCHANGED << chipv, hvstate, workv, reg_power_path, reg_apsd_done,
                    regout, peerv, runv, extv, callv, icl_ma, irq_ret >>

\* the cable is plugged or unplugged
PowerPathChanges ==
    /\ reg_power_path' \in (SUBSET PowerPathBits) \ {reg_power_path}
    /\ ForgetObservations
    /\ UNCHANGED << chipv, hvstate, workv, reg_apsd_result, reg_apsd_done,
                    regout, peerv, runv, extv, callv, icl_ma, irq_ret >>

\* the detection-done bit changes
ApsdDoneChanges ==
    /\ reg_apsd_done' = ~reg_apsd_done
    /\ ForgetObservations
    /\ UNCHANGED << chipv, hvstate, workv, reg_power_path, reg_apsd_result,
                    regout, peerv, runv, extv, callv, icl_ma, irq_ret >>

\* the peer registers its power supply after the driver's initialization
PeerRegisters ==
    /\ ~tcpm_registered
    /\ tcpm_registered' = TRUE
    /\ ForgetObservations
    /\ UNCHANGED << chipv, hvstate, workv, regin, regout, tcpm_usb_type,
                    tcpm_current_max, runv, extv, callv, icl_ma, irq_ret >>

\* the peer's properties change
PeerChanges(types, currents) ==
    /\ tcpm_registered
    /\ tcpm_usb_type' \in types
    /\ tcpm_current_max' \in currents
    /\ << tcpm_usb_type', tcpm_current_max' >> # << tcpm_usb_type, tcpm_current_max >>
    /\ ForgetObservations
    /\ UNCHANGED << chipv, hvstate, workv, regin, regout, tcpm_registered,
                    runv, extv, callv, icl_ma, irq_ret >>

(***************************************************************************)
(* smb235x_get_prop_battery_status.  The values of the charger status      *)
(* field are the eight enumerators the function names and "OTHER", any     *)
(* value of the masked field that is none of them.                         *)
(***************************************************************************)
BattChargerStatusValues ==
    {"TRICKLE_CHARGE", "PRE_CHARGE", "FULLON_CHARGE", "TAPER_CHARGE",
     "TERMINATE_CHARGE", "INHIBIT_CHARGE", "PAUSE_CHARGE", "DISABLE_CHARGE",
     "OTHER"}

\* variant: offline, only a terminated charge reads as full
OfflineBatteryStatus_terminate(stat) ==
    IF stat = "TERMINATE_CHARGE" THEN "FULL" ELSE "DISCHARGING"

\* lines 1524-1535: the switch of an offline chip
OfflineBatteryStatus(stat) ==
    IF stat \in {"TERMINATE_CHARGE", "INHIBIT_CHARGE"}
    THEN "FULL"
    ELSE "DISCHARGING"

\* variant: online, an inhibited charger reads as full
OnlineBatteryStatus_inhibit(stat) ==
    CASE stat \in {"TRICKLE_CHARGE", "PRE_CHARGE", "FULLON_CHARGE",
                   "TAPER_CHARGE"} -> "CHARGING"
      [] stat \in {"TERMINATE_CHARGE", "INHIBIT_CHARGE"} -> "FULL"
      [] stat \in {"PAUSE_CHARGE", "DISABLE_CHARGE"} -> "NOT_CHARGING"
      [] OTHER -> "UNKNOWN"

\* lines 1537-1561: the switch of an online chip
OnlineBatteryStatus(stat) ==
    CASE stat \in {"TRICKLE_CHARGE", "PRE_CHARGE", "FULLON_CHARGE",
                   "TAPER_CHARGE"} -> "CHARGING"
      [] stat = "TERMINATE_CHARGE" -> "FULL"
      [] stat \in {"INHIBIT_CHARGE", "PAUSE_CHARGE", "DISABLE_CHARGE"} ->
             "NOT_CHARGING"
      [] OTHER -> "UNKNOWN"

\* pp_ok: the power-path status read succeeds; rd_ok: the read of
\* BATTERY_CHARGER_STATUS_1_REG succeeds
smb235x_get_prop_battery_status(pp_ok, rd_ok) ==
    LET usb_online == smb235x_get_usb_online(pp_ok)
    IN  IF ~rd_ok
        THEN [rc |-> "EIO", val |-> "none", online |-> usb_online,
              stat |-> "none"]
        ELSE [rc |-> "OK",
              val |-> IF ~usb_online
                      THEN OfflineBatteryStatus(reg_batt_status)
                      ELSE OnlineBatteryStatus(reg_batt_status),
              online |-> usb_online, stat |-> reg_batt_status]

NoBattObservation ==
    [ran |-> FALSE, rc |-> "OK", val |-> "none", online |-> FALSE,
     stat |-> "none"]

\* smb235x_batt_get_prop, POWER_SUPPLY_PROP_STATUS
BattGetStatus ==
    /\ \E pp_ok \in Ok("power_path_read"), rd_ok \in Ok("batt_status_read") :
          LET b == smb235x_get_prop_battery_status(pp_ok, rd_ok)
          IN  batt_obs' = [ran |-> TRUE, rc |-> b.rc, val |-> b.val,
                           online |-> b.online, stat |-> b.stat]
    /\ UNCHANGED << corev, ext_but_battv, reg_batt_status >>

\* the charger status field changes
BattChargerStatusChanges ==
    /\ reg_batt_status' \in BattChargerStatusValues \ {reg_batt_status}
    /\ UNCHANGED << corev, ext_but_battv, batt_obs >>

(***************************************************************************)
(* The fast-charge current and the input current limit as programmed.      *)
(***************************************************************************)
DEFAULT_FASTCHG_CURR_UA == 3250000

\* variant: the code without the bias of one step
FccCode_nobias(fcc_ua) ==
    ((fcc_ua \div MICRO_TO_MILLI) \div CURRENT_STEP_MA) % U8_MODULUS

\* line 1647: u8 reg_val = (fcc_ua / MICRO_TO_MILLI / CURRENT_STEP_MA) + 1
FccCode(fcc_ua) ==
    (((fcc_ua \div MICRO_TO_MILLI) \div CURRENT_STEP_MA) + 1) % U8_MODULUS

smb235x_set_fcc(fcc_ua, w_ok) ==
    IF w_ok
    THEN [rc |-> "OK", reg |-> FccCode(fcc_ua)]
    ELSE [rc |-> "EIO", reg |-> reg_fcc]

DEFAULT_FLOAT_VOLT_UV == 8800000

FLOAT_VOLTAGE_BASE_MV == 7200

FLOAT_VOLTAGE_STEP_MV == 20

\* lines 1633-1634: u8 reg_val = (vfloat_uv / MICRO_TO_MILLI -
\* FLOAT_VOLTAGE_BASE_MV) / FLOAT_VOLTAGE_STEP_MV, the division of C
\* truncating towards zero
FvCode(vfloat_uv) ==
    LET mv == (vfloat_uv \div MICRO_TO_MILLI) - FLOAT_VOLTAGE_BASE_MV
        steps == IF mv >= 0
                 THEN mv \div FLOAT_VOLTAGE_STEP_MV
                 ELSE -((-mv) \div FLOAT_VOLTAGE_STEP_MV)
    IN  steps % U8_MODULUS

smb235x_set_fv(vfloat_uv, w_ok) ==
    IF w_ok
    THEN [rc |-> "OK", reg |-> FvCode(vfloat_uv)]
    ELSE [rc |-> "EIO", reg |-> reg_fv]

\* q_ok: power_supply_get_property on the fuel gauge succeeds
smb235x_get_prop_from_bms(q_ok) ==
    IF ~bms_psy /\ ~bms_registered
    THEN [rc |-> "EINVAL", psy |-> FALSE]
    ELSE [rc |-> IF q_ok THEN "OK" ELSE "EIO", psy |-> TRUE]

\* values a caller writes to CONSTANT_CHARGE_CURRENT_MAX; the last one is
\* beyond what eight bits hold
FccInputsUa == {0, 49999, 50000, 3250000, 12750000}

\* the value the fuel gauge holds for CONSTANT_CHARGE_CURRENT_MAX
BmsFccUa == {1000000}

\* values a caller writes to the usb CURRENT_MAX property
IclInputsUa == {0, 49000, 100000, 255000, 500000}

\* values a caller writes to CONSTANT_CHARGE_VOLTAGE_MAX
FvInputsUv == {8400000}

\* the value the fuel gauge holds for CONSTANT_CHARGE_VOLTAGE_MAX
BmsFvUv == {8000000}

NoFccObservation == [ran |-> FALSE, rc |-> "OK"]

NoCycleObservation ==
    [ran |-> FALSE, soc |-> "none", fcc |-> "none", fv |-> "none",
     bms_fcc |-> 0, bms_fv |-> 0]

NoSetObservation ==
    [prop |-> "none", caller |-> 0, bms_rc |-> "OK", bms_val |-> 0,
     pushed |-> 0, rc |-> "OK", before |-> 0, after |-> 0]

\* lines 1673-1676 and 1683-1686: the cache is written before the register
BattSetCache(cur, before, rc) == cur

\* variant: the caller's value is pushed whatever the fuel gauge says
BattSetValue_caller(bms_rc, bms_val, caller) == caller

\* lines 1665-1669, bms_prop_exist, and the choice of the value
BattSetValue(bms_rc, bms_val, caller) ==
    IF bms_rc = "OK" THEN bms_val ELSE caller

NoIclObservation ==
    [ran |-> FALSE, rc |-> "OK", ma |-> 0, writes |-> << >>, ua |-> 0]

\* smb235x_batt_set_prop, POWER_SUPPLY_PROP_CONSTANT_CHARGE_CURRENT_MAX
BattSetFcc(ua) ==
    /\ \E q_ok \in Ok("bms_query"), bv \in BmsFccUa, w_ok \in Ok("fcc_write") :
          LET b == smb235x_get_prop_from_bms(q_ok)
              cur == BattSetValue(b.rc, bv, ua)
              w == smb235x_set_fcc(cur, w_ok)
          IN  /\ bms_psy' = b.psy
              /\ fastchg_curr_ua' = BattSetCache(cur, fastchg_curr_ua, w.rc)
              /\ reg_fcc' = w.reg
              /\ fcc_obs' = [ran |-> TRUE, rc |-> w.rc]
              /\ set_obs' = [prop |-> "CONSTANT_CHARGE_CURRENT_MAX",
                             caller |-> ua, bms_rc |-> b.rc, bms_val |-> bv,
                             pushed |-> cur, rc |-> w.rc,
                             before |-> fastchg_curr_ua,
                             after |-> fastchg_curr_ua']
    /\ cyc_obs' = NoCycleObservation
    /\ UNCHANGED << corev, ext_but_recv, bms_registered, icl_obs,
                    float_volt_uv, reg_fv, reg_soc, stepv >>

\* smb235x_batt_set_prop, POWER_SUPPLY_PROP_CONSTANT_CHARGE_VOLTAGE_MAX
BattSetFv(uv) ==
    /\ \E q_ok \in Ok("fv_query"), bv \in BmsFvUv, w_ok \in Ok("fv_write") :
          LET b == smb235x_get_prop_from_bms(q_ok)
              cur == BattSetValue(b.rc, bv, uv)
              w == smb235x_set_fv(cur, w_ok)
          IN  /\ bms_psy' = b.psy
              /\ float_volt_uv' = BattSetCache(cur, float_volt_uv, w.rc)
              /\ reg_fv' = w.reg
              /\ set_obs' = [prop |-> "CONSTANT_CHARGE_VOLTAGE_MAX",
                             caller |-> uv, bms_rc |-> b.rc, bms_val |-> bv,
                             pushed |-> cur, rc |-> w.rc,
                             before |-> float_volt_uv,
                             after |-> float_volt_uv']
    /\ cyc_obs' = NoCycleObservation
    /\ UNCHANGED << corev, ext_but_recv, bms_registered, icl_obs,
                    fastchg_curr_ua, reg_fcc, fcc_obs, reg_soc, stepv >>

\* smb235x_usb_set_prop, POWER_SUPPLY_PROP_CURRENT_MAX
UsbSetCurrentMax(ua) ==
    /\ \E ok1 \in Ok("icl_write_1"), ok2 \in Ok("icl_write_2"),
          ok3 \in Ok("icl_write_3") :
          LET ma == (ua \div MICRO_TO_MILLI) % U8_MODULUS
              w == smb235x_set_icl_sw(ma, ok1, ok2, ok3)
          IN  /\ smb235x_set_prop_usb_input_current_limit(ua, ok1, ok2, ok3)
              /\ icl_obs' = [ran |-> TRUE, rc |-> w.rc, ma |-> ma,
                             writes |-> w.writes, ua |-> ua]
    /\ ForgetObservations
    /\ UNCHANGED << chipv, hvstate, workv, regin, peerv, runv, callv, icl_ma,
                    irq_ret >>
    /\ UNCHANGED << ext_but_fccv, reg_fcc, fastchg_curr_ua, bms_psy,
                    bms_registered, fcc_obs >>

\* the programmed currents before their first use: smb235x_parse_dt sets
\* the default and smb235x_config_chg_current_voltage programs it
IdleFcc ==
    /\ fastchg_curr_ua = DEFAULT_FASTCHG_CURR_UA
    /\ reg_fcc = FccCode(DEFAULT_FASTCHG_CURR_UA)
    /\ bms_psy = FALSE
    /\ bms_registered = FALSE
    /\ fcc_obs = NoFccObservation
    /\ icl_obs = NoIclObservation

\* the float voltage and the state of charge before their first use:
\* smb235x_parse_dt sets the default float voltage and
\* smb235x_config_chg_current_voltage programs it
IdleRec ==
    /\ float_volt_uv = DEFAULT_FLOAT_VOLT_UV
    /\ reg_fv = FvCode(DEFAULT_FLOAT_VOLT_UV)
    /\ reg_soc = 0
    /\ set_obs = NoSetObservation
    /\ cyc_obs = NoCycleObservation
    /\ set_pc = "idle"
    /\ rec_pc = "idle"
    /\ rec_val = 0
    /\ write_failed = FALSE

\* the battery property set before its first use
IdleBatt ==
    /\ reg_batt_status = "DISABLE_CHARGE"
    /\ batt_obs = NoBattObservation

(***************************************************************************)
(* The interrupt handlers other than the source-change handler.  Each is   *)
(* one step; an observation keeps what the last one read, wrote, published *)
(* and returned.                                                           *)
(***************************************************************************)
NoIrqObservation ==
    [handler |-> "none", rd |-> "none", ret |-> "none", vbus |-> FALSE,
     wr |-> "none", changed |-> "none"]

\* what a handler run leaves to observe
\*   rd       "ok" or "fail" for its initial status read, "none" without one
\*   changed  the property set power_supply_changed was called for, or "none"
IrqObservation(handler, rd, ret, changed) ==
    [NoIrqObservation EXCEPT !.handler = handler, !.rd = rd, !.ret = ret,
                             !.changed = changed]

\* a handler that reads a status register, gives up when the read fails and
\* otherwise does no register access
ReadingHandler(handler, changed) ==
    /\ \E rd_ok \in Ok("irq_status_read") :
          irq_obs' = IF rd_ok
                     THEN IrqObservation(handler, "ok", "IRQ_HANDLED", changed)
                     ELSE IrqObservation(handler, "fail", "IRQ_NONE", "none")
    /\ UNCHANGED << corev, ext_but_evtv, reg_usbin_plugin, reg_charging_enable,
                    src_rd >>

\* a handler that makes no register access
PlainHandler(handler, changed) ==
    /\ irq_obs' = IrqObservation(handler, "none", "IRQ_HANDLED", changed)
    /\ UNCHANGED << corev, ext_but_evtv, reg_usbin_plugin, reg_charging_enable,
                    src_rd >>

smb235x_chg_state_change_irq_handler ==
    ReadingHandler("chg_state_change", "batt")

smb235x_charge_err_irq_handler == ReadingHandler("charge_err", "none")

smb235x_aicl_done_irq_handler == ReadingHandler("aicl_done", "none")

smb235x_default_irq_handler == PlainHandler("default", "none")

smb235x_batt_temp_changed_irq_handler ==
    PlainHandler("batt_temp_changed", "batt")

smb235x_batt_psy_changed_irq_handler ==
    PlainHandler("batt_psy_changed", "batt")

smb235x_usbin_uv_irq_handler == PlainHandler("usbin_uv", "none")

smb235x_usbin_ov_irq_handler == PlainHandler("usbin_ov", "none")

\* variant: a failed watchdog write reports the event unhandled
WdogBarkReturn_none(w_ok) == IF w_ok THEN "IRQ_HANDLED" ELSE "IRQ_NONE"

\* line 598: the return of the watchdog handler, w_ok being the outcome of
\* its write
WdogBarkReturn(w_ok) == "IRQ_HANDLED"

smb235x_wdog_bark_irq_handler ==
    /\ \E w_ok \in Ok("wdog_write") :
          irq_obs' = [IrqObservation("wdog_bark", "none", WdogBarkReturn(w_ok),
                                     "none")
                         EXCEPT !.wr = IF w_ok THEN "ok" ELSE "fail"]
    /\ UNCHANGED << corev, ext_but_evtv, reg_usbin_plugin, reg_charging_enable,
                    src_rd >>

\* variant: the bit is set whatever the argument
smb235x_enable_charge_set(enable, w_ok) ==
    IF w_ok
    THEN [rc |-> "OK", reg |-> TRUE]
    ELSE [rc |-> "EIO", reg |-> reg_charging_enable]

smb235x_enable_charge(enable, w_ok) ==
    IF w_ok
    THEN [rc |-> "OK", reg |-> enable]
    ELSE [rc |-> "EIO", reg |-> reg_charging_enable]

smb235x_usb_plugin_irq_handler ==
    /\ \E rd_ok \in Ok("irq_status_read"), w_ok \in Ok("enable_write") :
          IF ~rd_ok
          THEN \* line 416
               /\ irq_obs' = IrqObservation("usb_plugin", "fail", "IRQ_NONE",
                                            "none")
               /\ UNCHANGED reg_charging_enable
          ELSE LET vbus_rising == reg_usbin_plugin
                   e == smb235x_enable_charge(vbus_rising, w_ok)
               IN  /\ reg_charging_enable' = e.reg
                   /\ irq_obs' =
                        [IrqObservation("usb_plugin", "ok", "IRQ_HANDLED",
                                        IF Failed(e.rc) THEN "none" ELSE "usb")
                            EXCEPT !.vbus = vbus_rising,
                                   !.wr = IF Failed(e.rc) THEN "fail" ELSE "ok"]
    /\ UNCHANGED << corev, ext_but_evtv, reg_usbin_plugin, src_rd >>

\* the cable is plugged or unplugged: the VBUS status bit changes
UsbinPluginChanges ==
    /\ reg_usbin_plugin' = ~reg_usbin_plugin
    /\ UNCHANGED << corev, ext_but_evtv, reg_charging_enable, src_rd, irq_obs >>

\* no interrupt was handled yet; smb235x_chg_init has enabled charging
IdleEvt ==
    /\ reg_usbin_plugin = FALSE
    /\ reg_charging_enable = TRUE
    /\ src_rd = "none"
    /\ irq_obs = NoIrqObservation

(***************************************************************************)
(* The notifier callback and the work it schedules, step by step.  The     *)
(* callback runs for every power-supply event of every supply, possibly on *)
(* several processors at once.  schedule_work queues the work only when it *)
(* sets the pending flag (test and set); a worker clears the flag when it  *)
(* takes the work off the queue, before it runs status_change_work, and    *)
(* never runs one work item twice at the same time.                        *)
(***************************************************************************)
Notifiers == {"n1", "n2"}

NoNotification == [prop_changed |-> FALSE, from_tcpm |-> FALSE]

\* variant: the name of the supply is not compared
NotifierAccepts_any(prop_changed, pending, from_tcpm) ==
    prop_changed /\ ~pending

\* lines 1800-1806: the callback goes on to schedule_work
NotifierAccepts(prop_changed, pending, from_tcpm) ==
    prop_changed /\ ~pending /\ from_tcpm

\* smb235x_tcpm_notifier_cb up to the call of schedule_work
NotifierCheck(n, prop_changed, from_tcpm) ==
    /\ nb_registered
    /\ nb_pc[n] = "idle"
    /\ IF NotifierAccepts(prop_changed, work_pending, from_tcpm)
       THEN /\ nb_pc' = [nb_pc EXCEPT ![n] = "schedule"]
            /\ nb_arg' = [nb_arg EXCEPT ![n] =
                            [prop_changed |-> prop_changed,
                             from_tcpm |-> from_tcpm]]
       ELSE UNCHANGED << nb_pc, nb_arg >>
    /\ UNCHANGED << corev, ext_but_wqv, wq_queued, wq_running >>

\* schedule_work(&chip->status_change_work) and the callback's return
NotifierSchedule(n) ==
    /\ nb_pc[n] = "schedule"
    /\ nb_pc' = [nb_pc EXCEPT ![n] = "idle"]
    /\ nb_arg' = [nb_arg EXCEPT ![n] = NoNotification]
    /\ work_pending' = TRUE
    /\ wq_queued' = IF work_pending THEN wq_queued ELSE wq_queued + 1
    /\ UNCHANGED << chipv, hvstate, nb_registered, regin, regout, peerv, runv,
                    callv, irqv, det_obs, ext_but_wqv, wq_running >>

\* a worker takes the work off the queue
WorkerTakes ==
    /\ wq_queued > 0
    /\ ~wq_running
    /\ wq_queued' = wq_queued - 1
    /\ wq_running' = TRUE
    /\ work_pending' = FALSE
    /\ UNCHANGED << chipv, hvstate, nb_registered, regin, regout, peerv, runv,
                    callv, irqv, det_obs, ext_but_wqv, nb_pc, nb_arg >>

\* the worker runs status_change_work
WorkerRuns ==
    /\ wq_running
    /\ wq_running' = FALSE
    /\ \E q_ok \in Ok("peer_usb_type"),
          f \in FirstFault({"peer_current_max", "icl_write_1", "icl_write_2",
                            "icl_write_3"}) :
          smb235x_tcpm_update_icl(q_ok, f # "peer_current_max",
                                  f # "icl_write_1", f # "icl_write_2",
                                  f # "icl_write_3")
    /\ ForgetObservations
    /\ UNCHANGED << charger_type, usb_type, sdp_icl_ua, hvstate, workv,
                    regin, peerv, runv, callv, icl_ma, irq_ret,
                    ext_but_wqv, wq_queued, nb_pc, nb_arg >>

\* no notification is being handled and the work is neither queued nor
\* running
IdleWq ==
    /\ wq_queued = 0
    /\ wq_running = FALSE
    /\ nb_pc = [n \in Notifiers |-> "idle"]
    /\ nb_arg = [n \in Notifiers |-> NoNotification]

(***************************************************************************)
(* smb235x_probe.  smb235x_chg_init runs its steps in order and returns at *)
(* the first one that fails; smb235x_init_psy, smb235x_request_interrupts  *)
(* and smb235x_set_initial_status follow.                                  *)
(***************************************************************************)
\* line 803: chip->dt.chg_inhibit_thr_uv when the devicetree has no
\* threshold (-EINVAL)
DT_ABSENT == -22

\* lines 1019-1071
ChgInitSteps ==
    << "config_chg_current_voltage", "enable_apsd", "config_aicl",
       "enable_watchdog", "config_charge_termination", "config_recharge",
       "config_float_charge", "config_inhibit", "enable_charge" >>

\* lines 989-1005: the thresholds in millivolts that have a register value
InhibitThresholdsMv == {100, 200, 400, 600}

\* variant: a threshold without a register value is skipped
smb235x_config_inhibit_lenient(thr_uv, w1_ok, w2_ok) ==
    IF thr_uv = DT_ABSENT
    THEN "OK"
    ELSE IF ~w1_ok
    THEN "EIO"
    ELSE IF (thr_uv \div MICRO_TO_MILLI) \notin InhibitThresholdsMv
    THEN "OK"
    ELSE IF ~w2_ok THEN "EIO" ELSE "OK"

\* the return value of smb235x_config_inhibit; w1_ok, w2_ok: its two
\* register writes succeed
smb235x_config_inhibit(thr_uv, w1_ok, w2_ok) ==
    IF thr_uv = DT_ABSENT
    THEN "OK"
    ELSE IF ~w1_ok
    THEN "EIO"
    ELSE IF (thr_uv \div MICRO_TO_MILLI) \notin InhibitThresholdsMv
    THEN "EINVAL"
    ELSE IF ~w2_ok THEN "EIO" ELSE "OK"

\* the return value of a step of smb235x_chg_init
\*   ok        the register accesses of the step succeed (for
\*             smb235x_config_inhibit: the first of its two writes)
\*   ok2       the second write of smb235x_config_inhibit succeeds
ChgInitStepResult(step, ok, ok2) ==
    CASE step = "config_inhibit" ->
             smb235x_config_inhibit(chg_inhibit_thr_uv, ok, ok2)
      [] step = "enable_charge" -> smb235x_enable_charge(TRUE, ok).rc
      [] OTHER -> IF ok THEN "OK" ELSE "EIO"

\* one step of smb235x_chg_init, and the return of smb235x_probe when the
\* step fails
ChgInitStep ==
    /\ life = "chg_init"
    /\ LET step == ChgInitSteps[chg_init_idx]
       IN  \E ok \in Ok("init_access"), ok2 \in Ok("inhibit_write_2") :
              LET rc == ChgInitStepResult(step, ok, ok2)
              IN  /\ steps_run' = Append(steps_run,
                                          [step |-> step, rc |-> rc])
                  /\ reg_charging_enable' =
                        IF step = "enable_charge"
                        THEN smb235x_enable_charge(TRUE, ok).reg
                        ELSE reg_charging_enable
                  /\ IF Failed(rc)
                     THEN /\ life' = "chg_init_failed"
                          /\ probe_rc' = rc
                          /\ UNCHANGED chg_init_idx
                     ELSE /\ life' = IF chg_init_idx = Len(ChgInitSteps)
                                     THEN "init_psy"
                                     ELSE "chg_init"
                          /\ chg_init_idx' = Min(chg_init_idx + 1,
                                                 Len(ChgInitSteps))
                          /\ UNCHANGED probe_rc
    /\ UNCHANGED << corev, ext_but_lifev_evtv, reg_usbin_plugin, src_rd, irq_obs,
                    chg_inhibit_thr_uv, psy_registered, irq_registered,
                    irq_enabled, upd_work, remove_idx, refs_put >>

\* smb235x_init_psy: the property sets are registered, the peers that exist
\* are looked up and the notifier is registered when the negotiation peer
\* was found; the managed registrations are undone when the probe fails
smb235x_init_psy ==
    /\ life = "init_psy"
    /\ \E reg_ok \in Ok("psy_register"), nb_ok \in Ok("notifier_register") :
          IF ~reg_ok
          THEN /\ life' = "failed"
               /\ probe_rc' = "EIO"
               /\ UNCHANGED << psy_registered, bms_psy, tcpm_psy,
                               nb_registered >>
          ELSE /\ bms_psy' = bms_registered
               /\ tcpm_psy' = (bms_registered /\ tcpm_registered)
               /\ nb_registered' = (tcpm_psy' /\ nb_ok)
               /\ IF tcpm_psy' /\ ~nb_ok
                  THEN /\ life' = "failed"
                       /\ probe_rc' = "EIO"
                       /\ psy_registered' = FALSE
                  ELSE /\ life' = "request_interrupts"
                       /\ psy_registered' = TRUE
                       /\ UNCHANGED probe_rc
    /\ UNCHANGED << charger_type, usb_type, pd_active, sdp_icl_ua, hvstate,
                    work_pending, regin, regout, peerv, runv, callv, irqv,
                    det_obs >>
    /\ UNCHANGED << battv, evtv, wqv, propv, recv, reg_fcc, fastchg_curr_ua,
                    bms_registered, fcc_obs, icl_obs >>
    /\ UNCHANGED << chg_init_idx, steps_run, chg_inhibit_thr_uv,
                    irq_registered, irq_enabled, upd_work, remove_idx,
                    refs_put >>

\* the interrupts of this model: the plug-in, source-change and watchdog
\* events
LifeIrqs == {"usbin-plugin", "usbin-src-change", "wdog-bark"}

\* smb235x_request_interrupts: the loop requests the interrupts the
\* devicetree names, irqs of them; the managed requests are undone when the
\* probe fails
smb235x_request_interrupts(irqs) ==
    /\ life = "request_interrupts"
    /\ \E ok \in Ok("irq_request") :
          IF ok
          THEN /\ life' = "initial_status"
               /\ irq_registered' = irqs
               /\ irq_enabled' = irqs
               /\ UNCHANGED << probe_rc, psy_registered >>
          ELSE /\ life' = "failed"
               /\ probe_rc' = "EIO"
               /\ psy_registered' = FALSE
               /\ UNCHANGED << irq_registered, irq_enabled >>
    /\ UNCHANGED << corev, ext_but_lifev, chg_init_idx, steps_run,
                    chg_inhibit_thr_uv, upd_work, remove_idx, refs_put >>

\* smb235x_set_initial_status, line 1942: smb235x_get_chg_type
InitialStatusDetect ==
    /\ life = "initial_status"
    /\ ~det_obs.ran
    /\ src_rd = "none"
    /\ UsbGetRealType

\* smb235x_set_initial_status, line 1943: the source-change handler is
\* called directly
InitialStatusHandler ==
    /\ life = "initial_status"
    /\ det_obs.ran
    /\ src_rd = "none"
    /\ smb235x_usb_source_change_irq_handler

\* smb235x_set_initial_status, line 1945, and the return of smb235x_probe
InitialStatusSchedule ==
    /\ life = "initial_status"
    /\ src_rd # "none"
    /\ pc["irq"] = "idle"
    /\ life' = "up"
    /\ probe_rc' = "OK"
    /\ upd_work' = "queued"
    /\ UNCHANGED << corev, ext_but_lifev, chg_init_idx, steps_run,
                    chg_inhibit_thr_uv, psy_registered, irq_registered,
                    irq_enabled, remove_idx, refs_put >>

(***************************************************************************)
(* The driver at work: a requested interrupt that is not disabled runs its *)
(* handler, and the periodic work runs and queues itself again.            *)
(***************************************************************************)
Delivered(irq) == life \in {"up", "remove"} /\ irq \in irq_enabled

PluginIrq == Delivered("usbin-plugin") /\ smb235x_usb_plugin_irq_handler

SourceChangeIrq ==
    Delivered("usbin-src-change") /\ smb235x_usb_source_change_irq_handler

WdogBarkIrq == Delivered("wdog-bark") /\ smb235x_wdog_bark_irq_handler

\* the delay of smb235x_update_work has passed and a worker takes it
UpdateWorkStarts ==
    /\ upd_work = "queued"
    /\ upd_work' = "running"
    /\ UNCHANGED << corev, ext_but_lifev, life, chg_init_idx, steps_run,
                    probe_rc, chg_inhibit_thr_uv, psy_registered,
                    irq_registered, irq_enabled, remove_idx, refs_put >>

\* the state of charge the fuel gauge reports, in percent
BmsSocPct == {50}

\* line 1897: u8 soc = DIV_ROUND_CLOSEST(pval.intval * 255, 100)
SocCode(pct) == ((pct * 255 + 50) \div 100) % U8_MODULUS

\* smb235x_update_soc: the read of the state of charge, the write of the
\* register and the write of the update bit; the first failure ends it
smb235x_update_soc(q_ok, pct, w_ok, u_ok) ==
    LET b == smb235x_get_prop_from_bms(q_ok)
    IN  IF Failed(b.rc) THEN [status |-> "read_failed", reg |-> reg_soc]
        ELSE IF ~w_ok THEN [status |-> "write_failed", reg |-> reg_soc]
        ELSE IF ~u_ok
        THEN [status |-> "update_failed", reg |-> SocCode(pct)]
        ELSE [status |-> "ok", reg |-> SocCode(pct)]

\* variant: a failure of smb235x_update_soc ends the cycle
CycleGoesOn_abort(soc_status) == soc_status = "ok"

\* lines 1919-1920: smb235x_update_soc returns nothing, and
\* smb235x_update_fv_fcc is called whatever happened in it
CycleGoesOn(soc_status) == TRUE

\* one half of smb235x_update_fv_fcc: the read from the fuel gauge, the
\* comparison with the cached value and the push
ReconcileStatus(q_ok, cached, val, w_ok) ==
    IF Failed(smb235x_get_prop_from_bms(q_ok).rc) THEN "read_failed"
    ELSE IF cached = val THEN "equal"
    ELSE IF ~w_ok THEN "write_failed"
    ELSE "pushed"

\* smb235x_update_fv_fcc: a failed read and a failed push of the
\* fast-charge current return before the float voltage is looked at
smb235x_update_fv_fcc(run, q1_ok, bv, w1_ok, q2_ok, bfv, w2_ok) ==
    LET fcc == IF run
               THEN ReconcileStatus(q1_ok, fastchg_curr_ua, bv, w1_ok)
               ELSE "not_reached"
        fv == IF fcc \in {"equal", "pushed"}
              THEN ReconcileStatus(q2_ok, float_volt_uv, bfv, w2_ok)
              ELSE "not_reached"
    IN  [fcc |-> fcc,
         fv |-> fv,
         reg_fcc |-> IF fcc = "pushed" THEN smb235x_set_fcc(bv, TRUE).reg
                     ELSE reg_fcc,
         fastchg_curr_ua |-> IF fcc = "pushed" THEN bv ELSE fastchg_curr_ua,
         reg_fv |-> IF fv = "pushed" THEN smb235x_set_fv(bfv, TRUE).reg
                    ELSE reg_fv,
         float_volt_uv |-> IF fv = "pushed" THEN bfv ELSE float_volt_uv]

\* variant: the work is queued again only after a cycle without failure
ScheduleDelayedWork_if_ok(upd, soc_status, fcc_status) ==
    IF upd # "running" THEN "cancelled"
    ELSE IF soc_status = "ok" /\ fcc_status \in {"equal", "pushed"}
    THEN "queued"
    ELSE "idle"

\* line 1922: schedule_delayed_work at the end of every run, which queues
\* nothing once cancel_delayed_work_sync has taken the work
ScheduleDelayedWork(upd, soc_status, fcc_status) ==
    IF upd = "running" THEN "queued" ELSE "cancelled"

\* smb235x_update_work: the two steps and schedule_delayed_work
smb235x_update_work ==
    /\ upd_work \in {"running", "cancelling"}
    /\ \E q_ok \in Ok("soc_query"), pct \in BmsSocPct, w_ok \in Ok("soc_write"),
          u_ok \in Ok("soc_update_write"),
          q1_ok \in Ok("bms_query"), bv \in BmsFccUa, w1_ok \in Ok("fcc_write"),
          q2_ok \in Ok("fv_query"), bfv \in BmsFvUv, w2_ok \in Ok("fv_write") :
          LET s == smb235x_update_soc(q_ok, pct, w_ok, u_ok)
              r == smb235x_update_fv_fcc(CycleGoesOn(s.status), q1_ok, bv,
                                         w1_ok, q2_ok, bfv, w2_ok)
          IN  /\ upd_work' = ScheduleDelayedWork(upd_work, s.status, r.fcc)
              /\ bms_psy' = smb235x_get_prop_from_bms(TRUE).psy
              /\ reg_soc' = s.reg
              /\ reg_fcc' = r.reg_fcc
              /\ fastchg_curr_ua' = r.fastchg_curr_ua
              /\ reg_fv' = r.reg_fv
              /\ float_volt_uv' = r.float_volt_uv
              /\ fcc_obs' = IF r.fcc \in {"pushed", "write_failed"}
                            THEN [ran |-> TRUE,
                                  rc |-> IF r.fcc = "pushed"
                                         THEN "OK"
                                         ELSE "EIO"]
                            ELSE fcc_obs
              /\ cyc_obs' = [ran |-> TRUE, soc |-> s.status, fcc |-> r.fcc,
                             fv |-> r.fv, bms_fcc |-> bv, bms_fv |-> bfv]
    /\ set_obs' = NoSetObservation
    /\ UNCHANGED << corev, battv, evtv, wqv, propv, bms_registered, icl_obs,
                    stepv >>
    /\ UNCHANGED << life, chg_init_idx, steps_run, probe_rc,
                    chg_inhibit_thr_uv, psy_registered, irq_registered,
                    irq_enabled, remove_idx, refs_put >>

(***************************************************************************)
(* smb235x_remove.  disable_irq returns when no handler of the interrupt   *)
(* is running; cancel_delayed_work_sync takes the work off the queue and   *)
(* returns when no worker runs it.                                         *)
(***************************************************************************)
\* variant: the references are released first
RemoveSteps_put_first ==
    << "put_bms", "put_tcpm", "free_interrupts", "cancel_delayed_work_sync" >>

\* lines 2006-2011
RemoveSteps ==
    << "free_interrupts", "cancel_delayed_work_sync", "put_bms", "put_tcpm" >>

RemoveAt(step) ==
    /\ life = "remove"
    /\ remove_idx <= Len(RemoveSteps)
    /\ RemoveSteps[remove_idx] = step

\* the step of smb235x_remove at remove_idx is done
RemoveGoesOn ==
    /\ remove_idx' = remove_idx + 1
    /\ life' = IF remove_idx = Len(RemoveSteps) THEN "removed" ELSE life

\* the platform device is unbound
RemoveStarts ==
    /\ life = "up"
    /\ life' = "remove"
    /\ UNCHANGED << corev, ext_but_lifev, chg_init_idx, steps_run, probe_rc,
                    chg_inhibit_thr_uv, psy_registered, irq_registered,
                    irq_enabled, upd_work, remove_idx, refs_put >>

\* a handler of the interrupt is running
HandlerRunning(irq) == irq = "usbin-src-change" /\ pc["irq"] # "idle"

\* smb235x_free_interrupts: disable_irq of one requested interrupt
RemoveDisableIrq(irq) ==
    /\ RemoveAt("free_interrupts")
    /\ irq \in irq_enabled
    /\ ~HandlerRunning(irq)
    /\ irq_enabled' = irq_enabled \ {irq}
    /\ UNCHANGED << corev, ext_but_lifev, life, chg_init_idx, steps_run,
                    probe_rc, chg_inhibit_thr_uv, psy_registered,
                    irq_registered, upd_work, remove_idx, refs_put >>

\* smb235x_free_interrupts returns
RemoveFreeInterruptsDone ==
    /\ RemoveAt("free_interrupts")
    /\ irq_enabled = {}
    /\ RemoveGoesOn
    /\ UNCHANGED << corev, ext_but_lifev, chg_init_idx, steps_run, probe_rc,
                    chg_inhibit_thr_uv, psy_registered, irq_registered,
                    irq_enabled, upd_work, refs_put >>

\* cancel_delayed_work_sync takes the work
RemoveCancelBegins ==
    /\ RemoveAt("cancel_delayed_work_sync")
    /\ upd_work \in {"queued", "running"}
    /\ upd_work' = IF upd_work = "queued" THEN "cancelled" ELSE "cancelling"
    /\ UNCHANGED << corev, ext_but_lifev, life, chg_init_idx, steps_run,
                    probe_rc, chg_inhibit_thr_uv, psy_registered,
                    irq_registered, irq_enabled, remove_idx, refs_put >>

\* cancel_delayed_work_sync returns
RemoveCancelDone ==
    /\ RemoveAt("cancel_delayed_work_sync")
    /\ upd_work = "cancelled"
    /\ RemoveGoesOn
    /\ UNCHANGED << corev, ext_but_lifev, chg_init_idx, steps_run, probe_rc,
                    chg_inhibit_thr_uv, psy_registered, irq_registered,
                    irq_enabled, upd_work, refs_put >>

\* lines 2008-2011: power_supply_put of a reference that is held
RemovePut(step, ref, held) ==
    /\ RemoveAt(step)
    /\ refs_put' = IF held THEN refs_put \cup {ref} ELSE refs_put
    /\ RemoveGoesOn
    /\ UNCHANGED << corev, ext_but_lifev, chg_init_idx, steps_run, probe_rc,
                    chg_inhibit_thr_uv, psy_registered, irq_registered,
                    irq_enabled, upd_work >>

RemovePutBms == RemovePut("put_bms", "bms", bms_psy)

RemovePutTcpm == RemovePut("put_tcpm", "tcpm", tcpm_psy)

\* the driver is up: smb235x_probe has returned 0
IdleLife ==
    /\ life = "up"
    /\ chg_init_idx = Len(ChgInitSteps)
    /\ steps_run = [i \in DOMAIN ChgInitSteps |->
                        [step |-> ChgInitSteps[i], rc |-> "OK"]]
    /\ probe_rc = "OK"
    /\ chg_inhibit_thr_uv = DT_ABSENT
    /\ psy_registered = TRUE
    /\ irq_registered = {}
    /\ irq_enabled = {}
    /\ upd_work = "queued"
    /\ remove_idx = 1
    /\ refs_put = {}

(***************************************************************************)
(* smb235x_usb_get_prop and smb235x_batt_get_prop.  "UNSUPPORTED" stands   *)
(* for a property that has no case in the switch.  An outcome holds        *)
(*   rc      what the switch leaves in rc, or what it returns directly     *)
(*   direct  the switch returns without reaching the translation of rc     *)
(*   cause   the failure that left the caller without a value of the       *)
(*           property: "none", "register_read", "peer_absent",             *)
(*           "peer_query" or "unsupported"                                 *)
(* The arguments pp_ok, rd_ok, q_ok, res_ok say that the power-path read,  *)
(* the register read of the getter, the peer query and the APSD result     *)
(* read succeed.                                                           *)
(***************************************************************************)
UsbProps ==
    {"PRESENT", "ONLINE", "CURRENT_MAX", "VOLTAGE_MAX", "VOLTAGE_NOW",
     "CURRENT_NOW", "SDP_CURRENT_MAX", "REAL_TYPE", "USB_TYPE", "UNSUPPORTED"}

BattProps ==
    {"PRESENT", "STATUS", "CHARGE_TYPE", "HEALTH", "TEMP", "VOLTAGE_NOW",
     "CURRENT_NOW", "CAPACITY", "VOLTAGE_MAX", "CURRENT_MAX",
     "CONSTANT_CHARGE_CURRENT_MAX", "CONSTANT_CHARGE_VOLTAGE_MAX",
     "CHARGE_TERM_CURRENT", "UNSUPPORTED"}

PeerCause(rc) ==
    CASE rc = "EINVAL" -> "peer_absent"
      [] rc = "EIO" -> "peer_query"
      [] OTHER -> "none"

ReadOutcome(rd_ok) ==
    IF rd_ok
    THEN [rc |-> "OK", cause |-> "none"]
    ELSE [rc |-> "EIO", cause |-> "register_read"]

\* smb235x_get_prop_usb_icl
smb235x_get_prop_usb_icl(pp_ok, rd_ok) ==
    IF ~smb235x_get_usb_online(pp_ok)
    THEN [rc |-> "OK", cause |-> "none"]
    ELSE ReadOutcome(rd_ok)

\* smb235x_get_prop_usb_voltage: the error of a failed read of the HVDCP
\* voltage becomes the value, rc stays 0; with pd_active the peer's value
\* replaces it
smb235x_get_prop_usb_voltage(pp_ok, rd_ok, q_ok) ==
    LET peer == smb235x_get_prop_from_tcpm(tcpm_psy, q_ok, 0)
    IN  IF ~smb235x_get_usb_online(pp_ok)
        THEN [rc |-> "OK", cause |-> "none", psy |-> tcpm_psy]
        ELSE IF pd_active
        THEN [rc |-> peer.rc, cause |-> PeerCause(peer.rc), psy |-> peer.psy]
        ELSE [rc |-> "OK",
              cause |-> IF charger_type = "USB_HVDCP" /\ ~rd_ok
                        THEN "register_read"
                        ELSE "none",
              psy |-> tcpm_psy]

\* the switch of smb235x_usb_get_prop
UsbPropOutcome(prop, pp_ok, rd_ok, q_ok, res_ok) ==
    LET keep == [rc |-> "OK", direct |-> FALSE, cause |-> "none",
                 psy |-> tcpm_psy, ct |-> charger_type, ut |-> usb_type,
                 detect |-> NoDetectObservation]
        icl == smb235x_get_prop_usb_icl(pp_ok, rd_ok)
        v == smb235x_get_prop_usb_voltage(pp_ok, rd_ok, q_ok)
        peer == smb235x_get_prop_from_tcpm(tcpm_psy, q_ok, 0)
        d == smb235x_get_chg_type(charger_type, usb_type, tcpm_psy,
                                  pp_ok, q_ok, res_ok)
    IN  CASE prop = "PRESENT" ->
                 [keep EXCEPT !.rc = ReadOutcome(rd_ok).rc,
                              !.cause = ReadOutcome(rd_ok).cause]
          [] prop = "CURRENT_MAX" ->
                 [keep EXCEPT !.rc = icl.rc, !.cause = icl.cause]
          [] prop \in {"VOLTAGE_MAX", "VOLTAGE_NOW"} ->
                 [keep EXCEPT !.rc = v.rc, !.cause = v.cause, !.psy = v.psy]
          [] prop = "CURRENT_NOW" ->
                 IF ~smb235x_get_usb_online(pp_ok)
                 THEN [keep EXCEPT !.direct = TRUE]
                 ELSE [keep EXCEPT !.rc = peer.rc,
                                   !.cause = PeerCause(peer.rc),
                                   !.psy = peer.psy]
          [] prop \in {"REAL_TYPE", "USB_TYPE"} ->
                 [keep EXCEPT !.rc = d.rc,
                              !.cause = IF Failed(d.rc)
                                        THEN "register_read"
                                        ELSE "none",
                              !.psy = d.psy, !.ct = d.ct, !.ut = d.ut,
                              !.detect = DetectObservation(d)]
          [] prop = "UNSUPPORTED" ->
                 [keep EXCEPT !.rc = "EINVAL", !.direct = TRUE,
                              !.cause = "unsupported"]
          [] OTHER -> keep

\* lines 1300-1305: what is left in rc is translated
GetPropReturn(outcome) ==
    IF outcome.direct
    THEN outcome.rc
    ELSE IF Failed(outcome.rc) THEN "ENODATA" ELSE "OK"

smb235x_usb_get_prop(prop) ==
    /\ \E pp_ok \in Ok("power_path_read"), rd_ok \in Ok("prop_read"),
          q_ok \in Ok("peer_prop"), res_ok \in Ok("apsd_result_read") :
          LET o == UsbPropOutcome(prop, pp_ok, rd_ok, q_ok, res_ok)
          IN  /\ get_obs' = [set |-> "usb", prop |-> prop,
                             rc |-> GetPropReturn(o), cause |-> o.cause,
                             peer |-> "none"]
              /\ tcpm_psy' = o.psy
              /\ charger_type' = o.ct
              /\ usb_type' = o.ut
              /\ det_obs' = o.detect
    /\ apsd_obs' = NoApsdObservation
    /\ UNCHANGED << pd_active, sdp_icl_ua, hvstate, workv, regin, regout,
                    peerv, runv, ext_but_propv, callv, icl_ma, irq_ret >>

\* variant: the health get ends with the fuel gauge's answer
HealthOutcome_peer_only(bms_rc, rd_ok) ==
    [rc |-> bms_rc, cause |-> PeerCause(bms_rc)]

\* POWER_SUPPLY_PROP_HEALTH: the fuel gauge's answer, and the health bits of
\* the charger's own status register when the fuel gauge gave none
HealthOutcome(bms_rc, rd_ok) ==
    IF Failed(bms_rc)
    THEN ReadOutcome(rd_ok)
    ELSE [rc |-> "OK", cause |-> "none"]

\* the switch of smb235x_batt_get_prop
BattPropOutcome(prop, pp_ok, rd_ok, q_ok) ==
    LET keep == [rc |-> "OK", direct |-> FALSE, cause |-> "none",
                 psy |-> bms_psy, peer |-> "none"]
        bms == smb235x_get_prop_from_bms(q_ok)
        frombms == [keep EXCEPT !.rc = bms.rc, !.cause = PeerCause(bms.rc),
                                !.psy = bms.psy, !.peer = PeerCause(bms.rc)]
        st == smb235x_get_prop_battery_status(pp_ok, rd_ok)
    IN  CASE prop \in {"PRESENT", "CHARGE_TYPE"} ->
                 [keep EXCEPT !.rc = ReadOutcome(rd_ok).rc,
                              !.cause = ReadOutcome(rd_ok).cause]
          [] prop = "STATUS" ->
                 [keep EXCEPT !.rc = st.rc,
                              !.cause = IF Failed(st.rc)
                                        THEN "register_read"
                                        ELSE "none"]
          [] prop = "HEALTH" ->
                 [keep EXCEPT !.rc = HealthOutcome(bms.rc, rd_ok).rc,
                              !.cause = HealthOutcome(bms.rc, rd_ok).cause,
                              !.psy = bms.psy,
                              !.peer = PeerCause(bms.rc)]
          [] prop \in {"TEMP", "VOLTAGE_NOW", "CURRENT_NOW", "CAPACITY",
                       "CONSTANT_CHARGE_CURRENT_MAX",
                       "CONSTANT_CHARGE_VOLTAGE_MAX"} -> frombms
          [] prop = "UNSUPPORTED" -> [keep EXCEPT !.cause = "unsupported"]
          [] OTHER -> keep

smb235x_batt_get_prop(prop) ==
    /\ \E pp_ok \in Ok("power_path_read"), rd_ok \in Ok("prop_read"),
          q_ok \in Ok("bms_query") :
          LET o == BattPropOutcome(prop, pp_ok, rd_ok, q_ok)
          IN  /\ get_obs' = [set |-> "batt", prop |-> prop,
                             rc |-> GetPropReturn(o), cause |-> o.cause,
                             peer |-> o.peer]
              /\ bms_psy' = o.psy
    /\ UNCHANGED << corev, battv, evtv, wqv, lifev, recv, reg_fcc,
                    fastchg_curr_ua, bms_registered, fcc_obs, icl_obs >>

NoGetObservation ==
    [set |-> "none", prop |-> "none", rc |-> "OK", cause |-> "none",
     peer |-> "none"]

IdleProp == get_obs = NoGetObservation

\* the state outside the detection, voltage and current-limit logic when
\* nothing of it is exercised
IdleExt ==
    IdleBatt /\ IdleFcc /\ IdleEvt /\ IdleWq /\ IdleLife /\ IdleProp /\ IdleRec

(***************************************************************************)
(* The state after smb235x_chg_init, smb235x_init_psy and                  *)
(* smb235x_request_interrupts: the chip structure is zeroed (kzalloc),     *)
(* smb235x_enable_apsd has set the HVDCP3 voltage, the base and the pulse  *)
(* count maximum (a field of a register it reads, one of                   *)
(* pulse_count_maxes).                                                     *)
(***************************************************************************)
InitChip(pulse_count_maxes) ==
    /\ charger_type = "UNKNOWN"
    /\ usb_type = "UT_UNKNOWN"
    /\ pd_active = FALSE
    /\ sdp_icl_ua = 0
    /\ hvdcp3_voltage_uv = QC3_DEFAULT_VOLTAGE_UV
    /\ based_hvdcp_voltage_uv = BASED_VOLTAGE_UV
    /\ hvdcp_pulse_count_max \in pulse_count_maxes
    /\ hvdcp_update_voltage_lock = "free"
    /\ work_pending = FALSE
    /\ reg_load_cfg_override = FALSE
    /\ reg_icl_override = FALSE
    /\ reg_current_limit = 0
    /\ reg_force_9v = FALSE
    /\ pc = [c \in Callers |-> "idle"]
    /\ voltage_uv = [c \in Callers |-> 0]
    /\ hvdcp_pulse_count = [c \in Callers |-> 0]
    /\ inc_issued = [c \in Callers |-> 0]
    /\ dec_issued = [c \in Callers |-> 0]
    /\ base_seen = [c \in Callers |-> 0]
    /\ pre_hv = [c \in Callers |-> 0]
    /\ pre_base = [c \in Callers |-> 0]
    /\ interfered = [c \in Callers |-> FALSE]
    /\ saw_other = [c \in Callers |-> FALSE]
    /\ hv_last_ret = "none"
    /\ icl_ma = 0
    /\ irq_ret = "none"
    /\ apsd_obs = NoApsdObservation
    /\ det_obs = NoDetectObservation

\* smb235x_init_psy: the peer handle is cached and the notifier registered
\* when the peer's supply exists at that time
InitPeer(types, currents) ==
    /\ tcpm_registered \in BOOLEAN
    /\ tcpm_psy = tcpm_registered
    /\ nb_registered = tcpm_psy
    /\ tcpm_usb_type \in types
    /\ tcpm_current_max \in currents

NoPeer ==
    /\ tcpm_registered = FALSE
    /\ tcpm_psy = FALSE
    /\ nb_registered = FALSE
    /\ tcpm_usb_type = "UT_C"
    /\ tcpm_current_max = 0

(***************************************************************************)
(* The HVDCP3 voltage path: a plugged charger that APSD reports as QC 3.0  *)
(* or as DCP, no negotiation peer, pulse writes that may fail, two writers *)
(* of the usb VOLTAGE_NOW property and the source-change interrupt.        *)
(***************************************************************************)
HvdcpApsdResults == {{"QC_3P0_BIT"}, {"DCP_CHARGER_BIT"}}

InitHvdcp ==
    /\ IdleExt
    /\ InitChip({0, MaxPulseCountMax})
    /\ NoPeer
    /\ faults = {"pulse_write"}
    /\ reg_power_path = PowerPathBits
    /\ reg_apsd_result \in HvdcpApsdResults
    /\ reg_apsd_done = TRUE

NextHvdcp ==
    \/ HvStep
    \/ \E c \in UserCallers, v \in TargetsUv : smb235x_set_prop_usb_voltage_now(c, v)
    \/ smb235x_usb_source_change_irq_handler
    \/ ApsdDoneAfterHvdcp3
    \/ ApsdResultChanges(HvdcpApsdResults)

SpecHvdcp == InitHvdcp /\ [][NextHvdcp]_vars

(***************************************************************************)
(* The cascade of bit tests: a plugged charger, no negotiation peer, every *)
(* combination of the seven APSD result bits, usb REAL_TYPE reads.         *)
(***************************************************************************)
AllApsdResults == SUBSET APSD_RESULT_STATUS_MASK

InitBits ==
    /\ IdleExt
    /\ InitChip({MaxPulseCountMax})
    /\ NoPeer
    /\ faults = {"apsd_result_read"}
    /\ reg_power_path = PowerPathBits
    /\ reg_apsd_result \in AllApsdResults
    /\ reg_apsd_done = TRUE

NextBits ==
    \/ UsbGetRealType
    \/ ApsdResultChanges(AllApsdResults)
    \/ PowerPathChanges

SpecBits == InitBits /\ [][NextBits]_vars

(***************************************************************************)
(* Detection with a negotiation peer: the cable is plugged and unplugged,  *)
(* the peer registers before or after the driver's initialization and      *)
(* changes its answers, its notifications run the work that sets           *)
(* pd_active, every access of the detection may fail.                      *)
(***************************************************************************)
DetectApsdResults ==
    {{}, {"DCP_CHARGER_BIT"}, {"FLOAT_CHARGER_BIT", "DCP_CHARGER_BIT"},
     {"SDP_CHARGER_BIT"}}

DetectPeerCurrentsUa == {900000}

InitDetect ==
    /\ IdleExt
    /\ InitChip({MaxPulseCountMax})
    /\ InitPeer(PeerUsbTypes, DetectPeerCurrentsUa)
    /\ faults = {"power_path_read", "peer_usb_type", "apsd_result_read"}
    /\ reg_power_path \in {PowerPathBits, {}}
    /\ reg_apsd_result \in DetectApsdResults
    /\ reg_apsd_done = TRUE

NextDetect ==
    \/ UsbGetRealType
    \/ PowerPathChanges
    \/ ApsdResultChanges(DetectApsdResults)
    \/ PeerRegisters
    \/ PeerChanges(PeerUsbTypes, DetectPeerCurrentsUa)
    \/ \E prop_changed \in BOOLEAN, from_tcpm \in BOOLEAN :
          smb235x_tcpm_notifier_cb(prop_changed, from_tcpm)
    \/ status_change_work

SpecDetect == InitDetect /\ [][NextDetect]_vars

(***************************************************************************)
(* The handling of detection-done: the source-change interrupt with every  *)
(* charger type APSD reports, a peer that sets pd_active through its       *)
(* notifications, writes of SDP_CURRENT_MAX, and the accesses after the    *)
(* status read failing.                                                    *)
(***************************************************************************)
ApsdDoneResults ==
    {{}, {"FLOAT_CHARGER_BIT"}, {"DCP_CHARGER_BIT"}, {"CDP_CHARGER_BIT"},
     {"SDP_CHARGER_BIT"}, {"QC_3P0_BIT"}, {"QC_2P0_BIT"}}

ApsdPeerUsbTypes == {"UT_C", "UT_PD"}

ApsdFaults ==
    {"apsd_result_read", "force_9v_write", "peer_current_max", "icl_write_3"}

InitApsd ==
    /\ IdleExt
    /\ InitChip({MaxPulseCountMax})
    /\ InitPeer(ApsdPeerUsbTypes, PeerCurrentsUa)
    /\ faults = ApsdFaults
    /\ reg_power_path = PowerPathBits
    /\ reg_apsd_result \in ApsdDoneResults
    /\ reg_apsd_done = TRUE

NextApsd ==
    \/ smb235x_usb_source_change_irq_handler
    \/ HvStepOfApsdDone
    \/ ApsdDoneAfterHvdcp3
    \/ ApsdResultChanges(ApsdDoneResults)
    \/ PeerChanges(ApsdPeerUsbTypes, PeerCurrentsUa)
    \/ \E prop_changed \in BOOLEAN, from_tcpm \in BOOLEAN :
          smb235x_tcpm_notifier_cb(prop_changed, from_tcpm)
    \/ status_change_work
    \/ \E ua \in SdpCurrentsUa : UsbSetSdpCurrentMax(ua)

SpecApsd == InitApsd /\ [][NextApsd]_vars

(***************************************************************************)
(* Properties of smb235x_set_hvdcp3_voltage, checked under SpecHvdcp.      *)
(***************************************************************************)

\* C1: calls of smb235x_set_hvdcp3_voltage are mutually exclusive: in every
\* reachable state at most one caller is between mutex_lock and mutex_unlock
\* (computing a pulse count, issuing pulses or storing the voltage and the
\* base), and that caller is the holder of the lock.
MutualExclusion ==
    /\ Cardinality({c \in Callers : pc[c] \in InCritical}) <= 1
    /\ \A c \in Callers :
          pc[c] \in InCritical => hvdcp_update_voltage_lock = c

\* a caller is issuing pulses or storing while another one waits for the lock
MutualExclusionWitness ==
    \E c, d \in Callers :
        /\ c # d
        /\ pc[c] \in {"inc", "dec", "store_v", "store_b"}
        /\ pc[d] = "lock"

\* C2: when a call of smb235x_set_hvdcp3_voltage returns success, the stored
\* voltage and the stored base both equal its target, so that after two
\* overlapping calls with different targets both values are the target of
\* the call that completed last.  (The base is compared only when the
\* detection-done handling, which writes it without the lock, did not run
\* during the call.)
LastCompletedTargetWins ==
    [][\A c \in Callers :
          (pc[c] = "unlock" /\ pc'[c] \notin InCall /\ ~interfered[c])
              => /\ hvdcp3_voltage_uv' = voltage_uv[c]
                 /\ based_hvdcp_voltage_uv' = voltage_uv[c]
                 /\ hv_last_ret' \in {"OK", "OK_overlap"}]_vars

\* both of two overlapping calls with different targets have returned
\* success, and the voltage and the base are equal
LastCompletedTargetWinsWitness ==
    /\ hv_last_ret = "OK_overlap"
    /\ \A c \in Callers : pc[c] \notin InCall
    /\ hvdcp3_voltage_uv = based_hvdcp_voltage_uv

\* C3: a call whose target is above the base issues, when its loop ends,
\* (target - base) / 200000 increment pulses clamped to
\* hvdcp_pulse_count_max, exactly hvdcp_pulse_count_max of them when the
\* target is above base + hvdcp_pulse_count_max * 200 mV, and no call ever
\* issues more increment pulses than hvdcp_pulse_count_max.
IncrementPulsesClamped ==
    /\ \A c \in Callers : inc_issued[c] <= hvdcp_pulse_count_max
    /\ \A c \in Callers :
          (pc[c] \in {"store_v", "store_b", "unlock"} /\ base_seen[c] # 0)
              => /\ inc_issued[c] =
                        Min((voltage_uv[c] - base_seen[c]) \div 200000,
                            hvdcp_pulse_count_max)
                 /\ voltage_uv[c] > base_seen[c] + hvdcp_pulse_count_max * 200000
                        => inc_issued[c] = hvdcp_pulse_count_max

\* a call that asked for more steps than the maximum has issued the maximum
IncrementPulsesClampedWitness ==
    \E c \in Callers :
        /\ pc[c] = "unlock"
        /\ base_seen[c] # 0
        /\ hvdcp_pulse_count_max > 0
        /\ (voltage_uv[c] - base_seen[c]) \div 200000 > hvdcp_pulse_count_max
        /\ inc_issued[c] = hvdcp_pulse_count_max

\* C4: when a pulse write fails the call returns at once with the error,
\* the lock is released, and the stored voltage and base are what they were
\* when the call took the lock, even after earlier pulses of the call.  (The
\* base is compared only when the detection-done handling did not write it
\* during the call.)
PulseFailureLeavesState ==
    [][\A c \in Callers :
          (pc[c] \in {"inc", "dec"} /\ pc'[c] \notin InCall)
              => /\ hvdcp_update_voltage_lock' = "free"
                 /\ hvdcp3_voltage_uv' = pre_hv[c]
                 /\ ~interfered[c] => based_hvdcp_voltage_uv' = pre_base[c]
                 /\ hv_last_ret' \in {"EIO", "EIO_after_pulses"}]_vars

\* a call has failed after pulses it had already written
PulseFailureLeavesStateWitness ==
    /\ hv_last_ret = "EIO_after_pulses"
    /\ hvdcp_update_voltage_lock = "free"

(***************************************************************************)
(* Properties of smb235x_handle_apsd_done, checked under SpecApsd.         *)
(***************************************************************************)

\* C5: whenever the detection-done handling programs the limit while
\* pd_active is true, the code written is the peer's CURRENT_MAX / 1000 / 50,
\* whatever the charger type.
PdActiveOverridesIcl ==
    (apsd_obs.stage = "done" /\ apsd_obs.pd /\ apsd_obs.wrote)
        => reg_current_limit = (tcpm_current_max \div 1000) \div 50

\* a DCP charger with pd_active and a peer at 900 mA: 900 mA, not 1500 mA
PdActiveOverridesIclWitness ==
    /\ apsd_obs.stage = "done"
    /\ apsd_obs.pd
    /\ apsd_obs.wrote
    /\ charger_type = "USB_DCP"
    /\ tcpm_current_max = 900000
    /\ reg_current_limit = 18

\* the table of the specification, in milliamps
TableIclMa ==
    CASE charger_type = "USB" ->
             IF sdp_icl_ua # 0 THEN sdp_icl_ua \div 1000 ELSE 500
      [] charger_type = "USB_CDP" -> 1500
      [] charger_type = "USB_DCP" -> 1500
      [] charger_type = "USB_FLOAT" -> 500
      [] charger_type = "USB_HVDCP" -> 3000
      [] charger_type = "USB_HVDCP_3" -> 3000
      [] OTHER -> 500

\* C6: after a detection-done handling with pd_active false in which every
\* register access succeeded, the limit programmed is the one the table
\* gives for the detected type; the force-9V bit is written for HVDCP2 and
\* only for it; smb235x_set_hvdcp3_voltage is called with the stored
\* voltage for HVDCP3 and only for it; and the DCP bit alone without a peer
\* gives charger_type DCP and limit code 30.
ApsdTablePrograms ==
    (apsd_obs.stage = "done" /\ ~apsd_obs.pd /\ apsd_obs.all_ok)
        => /\ reg_current_limit = TableIclMa \div 50
           /\ apsd_obs.wrote
           /\ apsd_obs.force9v = (charger_type = "USB_HVDCP")
           /\ charger_type = "USB_HVDCP" => reg_force_9v
           /\ IF charger_type = "USB_HVDCP_3"
              THEN apsd_obs.hv_target = hvdcp3_voltage_uv
              ELSE apsd_obs.hv_target = 0
           /\ (reg_apsd_result = {"DCP_CHARGER_BIT"} /\ ~tcpm_registered)
                 => charger_type = "USB_DCP" /\ reg_current_limit = 30

\* the DCP bit alone, no peer: DCP and code 30
ApsdTableProgramsWitness ==
    /\ apsd_obs.stage = "done"
    /\ ~apsd_obs.pd
    /\ apsd_obs.all_ok
    /\ reg_apsd_result = {"DCP_CHARGER_BIT"}
    /\ ~tcpm_registered
    /\ charger_type = "USB_DCP"
    /\ reg_current_limit = 30

(***************************************************************************)
(* Properties of smb235x_get_chg_type, checked under SpecBits and          *)
(* SpecDetect.                                                             *)
(***************************************************************************)
AutonomousBitOrder ==
    << "FLOAT_CHARGER_BIT", "DCP_CHARGER_BIT", "OCP_CHARGER_BIT",
       "CDP_CHARGER_BIT", "SDP_CHARGER_BIT", "QC_3P0_BIT", "QC_2P0_BIT" >>

AutonomousTypeOfBit ==
    [FLOAT_CHARGER_BIT |-> "USB_FLOAT", DCP_CHARGER_BIT |-> "USB_DCP",
     OCP_CHARGER_BIT |-> "USB_DCP", CDP_CHARGER_BIT |-> "USB_CDP",
     SDP_CHARGER_BIT |-> "USB", QC_3P0_BIT |-> "USB_HVDCP_3",
     QC_2P0_BIT |-> "USB_HVDCP"]

\* the last bit of the order that is set in stat
LastSetBit(stat) ==
    AutonomousBitOrder[
        CHOOSE i \in DOMAIN AutonomousBitOrder :
            /\ AutonomousBitOrder[i] \in stat
            /\ \A j \in DOMAIN AutonomousBitOrder :
                  j > i => AutonomousBitOrder[j] \notin stat]

\* C7: when a detection has read the APSD result register and at least one
\* result bit is set, charger_type is the type of the last set bit in the
\* order Float, DCP, OCP, CDP, SDP, QC3, QC2, for every combination of bits.
LastSetBitWins ==
    (/\ det_obs.ran
     /\ det_obs.read_apsd
     /\ det_obs.rc = "OK"
     /\ reg_apsd_result # {})
        => charger_type = AutonomousTypeOfBit[LastSetBit(reg_apsd_result)]

\* Float and DCP both set: DCP
LastSetBitWinsWitness ==
    /\ det_obs.ran
    /\ det_obs.read_apsd
    /\ det_obs.rc = "OK"
    /\ reg_apsd_result = {"FLOAT_CHARGER_BIT", "DCP_CHARGER_BIT"}
    /\ charger_type = "USB_DCP"

OfflineDetectionClearsPdActive ==
    (det_obs.ran /\ ~det_obs.online)
        => /\ charger_type = "UNKNOWN"
           /\ usb_type = "UT_UNKNOWN"
           /\ ~pd_active

\* C9: a detection of an offline chip makes the result (Unknown, Unknown)
\* without a peer query or a read of the APSD result register, and leaves
\* pd_active as it was.
OfflineDetectionKeepsPdActive ==
    [][(det_obs'.ran /\ ~det_obs'.online)
          => /\ charger_type' = "UNKNOWN"
             /\ usb_type' = "UT_UNKNOWN"
             /\ det_obs'.rc = "OK"
             /\ det_obs'.peer_rc = "none"
             /\ ~det_obs'.read_apsd
             /\ pd_active' = pd_active]_vars

\* an offline chip was detected as (Unknown, Unknown) and pd_active is set
OfflineDetectionKeepsPdActiveWitness ==
    /\ det_obs.ran
    /\ ~det_obs.online
    /\ charger_type = "UNKNOWN"
    /\ usb_type = "UT_UNKNOWN"
    /\ pd_active

\* C10: two consecutive calls of smb235x_get_chg_type, with the registers
\* and the peer unchanged and the same accesses succeeding, return the same
\* code and leave the same charger_type, usb_type and peer handle.
DetectionIdempotent ==
    \A pp_ok, q_ok, res_ok \in BOOLEAN :
        LET d1 == smb235x_get_chg_type(charger_type, usb_type, tcpm_psy,
                                       pp_ok, q_ok, res_ok)
            d2 == smb235x_get_chg_type(d1.ct, d1.ut, d1.psy,
                                       pp_ok, q_ok, res_ok)
        IN  /\ d2.rc = d1.rc
            /\ d2.ct = d1.ct
            /\ d2.ut = d1.ut
            /\ d2.psy = d1.psy

\* a detection that looked the peer up and took its answer has run, and a
\* second one changes nothing
DetectionIdempotentWitness ==
    /\ det_obs.ran
    /\ det_obs.online
    /\ det_obs.peer_rc = "OK"
    /\ ~nb_registered
    /\ tcpm_psy
    /\ usb_type = "UT_PD_PPS"
    /\ smb235x_get_chg_type(charger_type, usb_type, tcpm_psy,
                            TRUE, TRUE, TRUE).ut = usb_type

(***************************************************************************)
(* The HVDCP3 fields after a detection-done handling, checked under        *)
(* SpecHvdcp.                                                              *)
(***************************************************************************)

\* a step of smb235x_handle_apsd_done in which the detection succeeded with
\* a type other than HVDCP3: the handler is the only operation that leaves
\* every caller's position and loop counter alone and ends with an
\* observation of a detection
ApsdDoneNotHvdcp3Step ==
    /\ pc' = pc
    /\ hvdcp_pulse_count' = hvdcp_pulse_count
    /\ det_obs'.ran
    /\ det_obs'.rc = "OK"
    /\ apsd_obs'.stage # "none"
    /\ charger_type' # "USB_HVDCP_3"

\* C11 as the specification states it: after a detection-done handling whose
\* detection gives a type other than HVDCP3, hvdcp3_voltage_uv is 9.0 V and
\* the base is 5.0 V.
ApsdDoneResetsVoltageAndBase ==
    [][ApsdDoneNotHvdcp3Step
          => /\ hvdcp3_voltage_uv' = 9000000
             /\ based_hvdcp_voltage_uv' = 5000000]_vars

\* C11: a detection-done handling whose detection gives a type other than
\* HVDCP3 sets the base to 5.0 V and leaves hvdcp3_voltage_uv as it was.
ApsdDoneResetsBaseOnly ==
    [][ApsdDoneNotHvdcp3Step
          => /\ based_hvdcp_voltage_uv' = 5000000
             /\ hvdcp3_voltage_uv' = hvdcp3_voltage_uv]_vars

\* a DCP charger was handled after the voltage had been set to 5.5 V: the
\* base is 5.0 V and the voltage still 5.5 V
ApsdDoneResetsBaseOnlyWitness ==
    /\ apsd_obs.stage = "done"
    /\ charger_type = "USB_DCP"
    /\ \A c \in Callers : pc[c] = "idle"
    /\ based_hvdcp_voltage_uv = 5000000
    /\ hvdcp3_voltage_uv = 5500000

(***************************************************************************)
(* The battery status property: the cable is plugged and unplugged, the    *)
(* charger status field takes every value, both reads may fail.            *)
(***************************************************************************)
InitBattStatus ==
    /\ InitChip({MaxPulseCountMax})
    /\ NoPeer
    /\ faults = {"power_path_read", "batt_status_read"}
    /\ reg_power_path \in SUBSET PowerPathBits
    /\ reg_apsd_result = {}
    /\ reg_apsd_done = FALSE
    /\ reg_batt_status \in BattChargerStatusValues
    /\ batt_obs = NoBattObservation
    /\ IdleFcc
    /\ IdleEvt
    /\ IdleWq
    /\ IdleLife
    /\ IdleProp
    /\ IdleRec

NextBattStatus ==
    \/ BattGetStatus
    \/ BattChargerStatusChanges
    \/ PowerPathChanges

SpecBattStatus == InitBattStatus /\ [][NextBattStatus]_vars

\* C12 as the specification states it: offline, the battery status is Full
\* for TERMINATE_CHARGE and Discharging for every other value.
OfflineFullOnlyWhenTerminated ==
    (batt_obs.ran /\ batt_obs.rc = "OK" /\ ~batt_obs.online)
        => batt_obs.val = IF batt_obs.stat = "TERMINATE_CHARGE"
                          THEN "FULL" ELSE "DISCHARGING"

\* C12: offline, the battery status is Full for TERMINATE_CHARGE and for
\* INHIBIT_CHARGE, and Discharging for every other value.
OfflineFullWhenTerminatedOrInhibited ==
    (batt_obs.ran /\ batt_obs.rc = "OK" /\ ~batt_obs.online)
        => batt_obs.val = IF batt_obs.stat \in {"TERMINATE_CHARGE",
                                                "INHIBIT_CHARGE"}
                          THEN "FULL" ELSE "DISCHARGING"

\* offline with an inhibited charger: Full
OfflineFullWhenTerminatedOrInhibitedWitness ==
    /\ batt_obs.ran
    /\ batt_obs.rc = "OK"
    /\ ~batt_obs.online
    /\ batt_obs.stat = "INHIBIT_CHARGE"
    /\ batt_obs.val = "FULL"

\* the table of the specification
BatteryStatusTable(online, stat) ==
    IF online
    THEN CASE stat \in {"TRICKLE_CHARGE", "PRE_CHARGE", "FULLON_CHARGE",
                        "TAPER_CHARGE"} -> "CHARGING"
           [] stat = "TERMINATE_CHARGE" -> "FULL"
           [] stat \in {"INHIBIT_CHARGE", "PAUSE_CHARGE", "DISABLE_CHARGE"} ->
                  "NOT_CHARGING"
           [] OTHER -> "UNKNOWN"
    ELSE CASE stat \in {"TERMINATE_CHARGE", "INHIBIT_CHARGE"} -> "FULL"
           [] OTHER -> "DISCHARGING"

\* C13: a battery status read that succeeds gives the value of the table for
\* the usb online state it computed and the charger status field it read.
BatteryStatusFollowsTable ==
    (batt_obs.ran /\ batt_obs.rc = "OK")
        => /\ batt_obs.stat \in BattChargerStatusValues
           /\ batt_obs.val = BatteryStatusTable(batt_obs.online, batt_obs.stat)

\* online with an inhibited charger: NotCharging
BatteryStatusFollowsTableWitness ==
    /\ batt_obs.ran
    /\ batt_obs.rc = "OK"
    /\ batt_obs.online
    /\ batt_obs.stat = "INHIBIT_CHARGE"
    /\ batt_obs.val = "NOT_CHARGING"

(***************************************************************************)
(* The programmed currents: callers write the battery                      *)
(* CONSTANT_CHARGE_CURRENT_MAX and the usb CURRENT_MAX properties, the     *)
(* fuel gauge may be present, every register write may fail.               *)
(***************************************************************************)
InitProgram ==
    /\ InitChip({MaxPulseCountMax})
    /\ NoPeer
    /\ faults = {"bms_query", "fcc_write", "icl_write_1", "icl_write_2",
                 "icl_write_3"}
    /\ reg_power_path = {}
    /\ reg_apsd_result = {}
    /\ reg_apsd_done = FALSE
    /\ IdleBatt
    /\ IdleEvt
    /\ IdleWq
    /\ IdleLife
    /\ IdleProp
    /\ IdleRec
    /\ fastchg_curr_ua = DEFAULT_FASTCHG_CURR_UA
    /\ reg_fcc = FccCode(DEFAULT_FASTCHG_CURR_UA)
    /\ bms_registered \in BOOLEAN
    /\ bms_psy \in {FALSE, bms_registered}
    /\ fcc_obs = NoFccObservation
    /\ icl_obs = NoIclObservation

NextProgram ==
    \/ \E ua \in FccInputsUa : BattSetFcc(ua)
    \/ \E ua \in IclInputsUa : UsbSetCurrentMax(ua)

SpecProgram == InitProgram /\ [][NextProgram]_vars

\* C14: after a fast-charge current was written the register holds
\* (ua / 1000 / 50) + 1 for the current ua the chip keeps, and after an
\* input current limit ma was written the register holds ma / 50, both as
\* eight-bit values.
ProgrammedCodes ==
    /\ (fcc_obs.ran /\ fcc_obs.rc = "OK")
          => reg_fcc = (((fastchg_curr_ua \div 1000) \div 50) + 1) % 256
    /\ (icl_obs.ran /\ icl_obs.rc = "OK")
          => reg_current_limit = (icl_obs.ma \div 50) % 256

\* 50 mA of fast-charge current gives the code 2, 100 mA of input current
\* limit gives the code 2
ProgrammedCodesWitness ==
    /\ fcc_obs.ran
    /\ fcc_obs.rc = "OK"
    /\ fastchg_curr_ua = 50000
    /\ reg_fcc = 2
    /\ icl_obs.ran
    /\ icl_obs.rc = "OK"
    /\ icl_obs.ma = 100
    /\ reg_current_limit = 2

(***************************************************************************)
(* The interrupt handlers: every event arrives at any time, the            *)
(* source-change handler runs through detection, the HVDCP3 pulses and the *)
(* current limit, and every register access and peer query may fail.       *)
(***************************************************************************)
IrqApsdResults == {{"DCP_CHARGER_BIT"}, {"QC_3P0_BIT"}}

IrqPeerUsbTypes == {"UT_C"}

IrqPeerCurrentsUa == {900000}

IrqFaults ==
    {"status_read", "apsd_result_read", "peer_current_max", "icl_write_3",
     "pulse_write", "irq_status_read", "enable_write", "wdog_write"}

InitIrq ==
    /\ InitChip({MaxPulseCountMax})
    /\ InitPeer(IrqPeerUsbTypes, IrqPeerCurrentsUa)
    /\ faults = IrqFaults
    /\ reg_power_path = PowerPathBits
    /\ reg_apsd_result \in IrqApsdResults
    /\ reg_apsd_done \in BOOLEAN
    /\ IdleBatt
    /\ IdleFcc
    /\ IdleWq
    /\ IdleLife
    /\ IdleProp
    /\ IdleRec
    /\ reg_usbin_plugin \in BOOLEAN
    /\ reg_charging_enable = TRUE
    /\ src_rd = "none"
    /\ irq_obs = NoIrqObservation

NextIrq ==
    \/ smb235x_usb_source_change_irq_handler
    \/ HvStepOfApsdDone
    \/ ApsdDoneAfterHvdcp3
    \/ smb235x_usb_plugin_irq_handler
    \/ smb235x_chg_state_change_irq_handler
    \/ smb235x_charge_err_irq_handler
    \/ smb235x_aicl_done_irq_handler
    \/ smb235x_default_irq_handler
    \/ smb235x_batt_temp_changed_irq_handler
    \/ smb235x_batt_psy_changed_irq_handler
    \/ smb235x_usbin_uv_irq_handler
    \/ smb235x_usbin_ov_irq_handler
    \/ smb235x_wdog_bark_irq_handler
    \/ UsbinPluginChanges
    \/ ApsdResultChanges(IrqApsdResults)
    \/ ApsdDoneChanges

SpecIrq == InitIrq /\ [][NextIrq]_vars

\* C15: after a run of the plug-in handler whose status read succeeded the
\* event is reported handled; when the enable write succeeded too the
\* charging-enable bit equals the VBUS bit the handler read and a usb
\* property-changed notification was published; when the write failed no
\* notification was published.
PluginTogglesCharging ==
    (irq_obs.handler = "usb_plugin" /\ irq_obs.rd = "ok")
        => /\ irq_obs.ret = "IRQ_HANDLED"
           /\ irq_obs.wr = "ok"
                 => /\ reg_charging_enable = irq_obs.vbus
                    /\ irq_obs.changed = "usb"
           /\ irq_obs.wr = "fail" => irq_obs.changed = "none"
           /\ irq_obs.wr \in {"ok", "fail"}

\* an unplug disables charging and is published
PluginTogglesChargingWitness ==
    /\ irq_obs.handler = "usb_plugin"
    /\ irq_obs.rd = "ok"
    /\ irq_obs.wr = "ok"
    /\ ~irq_obs.vbus
    /\ ~reg_charging_enable
    /\ irq_obs.changed = "usb"

\* the handlers that start with a status register read
HandlersWithInitialRead ==
    {"chg_state_change", "charge_err", "usb_plugin", "aicl_done"}

\* C16: a handler run reports the event unhandled exactly when its initial
\* status read failed; with a successful read or without an initial read it
\* reports the event handled, whatever fails later.
UnhandledOnlyOnFailedInitialRead ==
    /\ irq_obs.handler # "none"
          => /\ irq_obs.ret \in {"IRQ_NONE", "IRQ_HANDLED"}
             /\ irq_obs.ret = "IRQ_NONE" <=> irq_obs.rd = "fail"
             /\ irq_obs.rd = "none"
                   <=> irq_obs.handler \notin HandlersWithInitialRead
    /\ (src_rd # "none" /\ pc["irq"] = "idle")
          => /\ irq_ret \in {"IRQ_NONE", "IRQ_HANDLED"}
             /\ irq_ret = "IRQ_NONE" <=> src_rd = "fail"

\* the source-change handler went through a failed pulse write and a failed
\* current-limit write and reports the event handled; the watchdog handler
\* failed to write and reports the event handled
UnhandledOnlyOnFailedInitialReadWitness ==
    /\ src_rd = "ok"
    /\ pc["irq"] = "idle"
    /\ irq_ret = "IRQ_HANDLED"
    /\ hv_last_ret = "EIO"
    /\ apsd_obs.stage = "done"
    /\ ~apsd_obs.wrote
    /\ irq_obs.handler = "wdog_bark"
    /\ irq_obs.wr = "fail"
    /\ irq_obs.ret = "IRQ_HANDLED"

(***************************************************************************)
(* The recompute of the current limit from the peer: notifications of      *)
(* every kind and from every supply arrive concurrently while the work is  *)
(* queued, taken and run, and the peer's properties change.                *)
(***************************************************************************)
WorkPeerUsbTypes == {"UT_C", "UT_PD"}

WorkPeerCurrentsUa == {900000, 3000000}

InitWork ==
    /\ InitChip({MaxPulseCountMax})
    /\ InitPeer(WorkPeerUsbTypes, WorkPeerCurrentsUa)
    /\ faults = {"peer_usb_type", "icl_write_3"}
    /\ reg_power_path = PowerPathBits
    /\ reg_apsd_result = {}
    /\ reg_apsd_done = FALSE
    /\ IdleExt

NextWork ==
    \/ \E n \in Notifiers, prop_changed \in BOOLEAN, from_tcpm \in BOOLEAN :
          NotifierCheck(n, prop_changed, from_tcpm)
    \/ \E n \in Notifiers : NotifierSchedule(n)
    \/ WorkerTakes
    \/ WorkerRuns
    \/ PeerChanges(WorkPeerUsbTypes, WorkPeerCurrentsUa)

SpecWork == InitWork /\ [][NextWork]_vars

\* C17: at most one status_change_work is queued, the pending flag is set
\* exactly while it is queued, and a callback reaches schedule_work only for
\* a property-changed event of the peer's supply.
AtMostOneRecomputeQueued ==
    /\ wq_queued <= 1
    /\ work_pending <=> wq_queued = 1
    /\ \A n \in Notifiers :
          nb_pc[n] = "schedule"
              => nb_arg[n].prop_changed /\ nb_arg[n].from_tcpm

\* the work is queued again while a worker runs it, and a second callback
\* that saw no pending work is about to call schedule_work
AtMostOneRecomputeQueuedWitness ==
    /\ wq_queued = 1
    /\ wq_running
    /\ \E n \in Notifiers : nb_pc[n] = "schedule"

(***************************************************************************)
(* The life of the driver: smb235x_probe step by step with every access    *)
(* allowed to fail, then interrupts and the periodic work, then            *)
(* smb235x_remove step by step while handlers and the work still run.      *)
(***************************************************************************)
\* values of chip->dt.chg_inhibit_thr_uv: none, zero, 100 taken as
\* millivolts, 100 mV, 300 mV, 600 mV
LifeInhibitThresholdsUv == {DT_ABSENT, 0, 100, 100000, 300000, 600000}

LifeApsdResults == {{"DCP_CHARGER_BIT"}, {"QC_3P0_BIT"}}

LifeFaults ==
    {"init_access", "inhibit_write_2", "psy_register", "notifier_register",
     "irq_request", "pulse_write"}

InitLife ==
    /\ InitChip({MaxPulseCountMax})
    /\ tcpm_registered \in BOOLEAN
    /\ tcpm_psy = FALSE
    /\ nb_registered = FALSE
    /\ tcpm_usb_type = "UT_C"
    /\ tcpm_current_max = 900000
    /\ faults = LifeFaults
    /\ reg_power_path = PowerPathBits
    /\ reg_apsd_result \in LifeApsdResults
    /\ reg_apsd_done = TRUE
    /\ IdleBatt
    /\ IdleWq
    /\ fastchg_curr_ua = DEFAULT_FASTCHG_CURR_UA
    /\ reg_fcc = FccCode(DEFAULT_FASTCHG_CURR_UA)
    /\ bms_registered \in BOOLEAN
    /\ bms_psy = FALSE
    /\ fcc_obs = NoFccObservation
    /\ icl_obs = NoIclObservation
    /\ reg_usbin_plugin = TRUE
    /\ reg_charging_enable = FALSE
    /\ src_rd = "none"
    /\ irq_obs = NoIrqObservation
    /\ life = "chg_init"
    /\ chg_init_idx = 1
    /\ steps_run = << >>
    /\ probe_rc = "none"
    /\ chg_inhibit_thr_uv \in LifeInhibitThresholdsUv
    /\ psy_registered = FALSE
    /\ irq_registered = {}
    /\ irq_enabled = {}
    /\ upd_work = "idle"
    /\ remove_idx = 1
    /\ refs_put = {}
    /\ IdleProp
    /\ IdleRec

NextLife ==
    \/ ChgInitStep
    \/ smb235x_init_psy
    \/ \E irqs \in SUBSET LifeIrqs : smb235x_request_interrupts(irqs)
    \/ InitialStatusDetect
    \/ InitialStatusHandler
    \/ InitialStatusSchedule
    \/ HvStepOfApsdDone
    \/ ApsdDoneAfterHvdcp3
    \/ PluginIrq
    \/ SourceChangeIrq
    \/ WdogBarkIrq
    \/ UpdateWorkStarts
    \/ smb235x_update_work
    \/ RemoveStarts
    \/ \E irq \in LifeIrqs : RemoveDisableIrq(irq)
    \/ RemoveFreeInterruptsDone
    \/ RemoveCancelBegins
    \/ RemoveCancelDone
    \/ RemovePutBms
    \/ RemovePutTcpm

SpecLife == InitLife /\ [][NextLife]_vars

\* interrupt delivery is off, no handler is running and the periodic work
\* is neither queued nor running
Quiesced ==
    /\ irq_enabled = {}
    /\ pc["irq"] = "idle"
    /\ upd_work = "cancelled"

\* C18: smb235x_remove releases a peer reference only after every requested
\* interrupt is disabled and the periodic work is cancelled and not
\* running; from then on no handler and no cycle of the work can run.
ReleaseAfterQuiesce ==
    (refs_put # {} \/ life = "removed")
        => /\ Quiesced
           /\ ~ENABLED (PluginIrq \/ SourceChangeIrq \/ WdogBarkIrq
                           \/ HvStepOfApsdDone \/ ApsdDoneAfterHvdcp3
                           \/ UpdateWorkStarts \/ smb235x_update_work)

\* both references are released after three interrupts were disabled, the
\* source-change handler had gone through its pulses, and the work had run
ReleaseAfterQuiesceWitness ==
    /\ life = "removed"
    /\ refs_put = {"bms", "tcpm"}
    /\ irq_registered = LifeIrqs
    /\ src_rd = "ok"
    /\ hv_last_ret # "none"
    /\ fcc_obs.ran

\* C19: the steps of smb235x_chg_init are entered in order; a step that
\* returns an error is the last one entered and smb235x_probe returns its
\* error; after that the charging-enable bit was not written, no property
\* set and no interrupt is registered and the periodic work is not
\* scheduled; with a threshold that is present and not 100, 200, 400 or
\* 600 mV smb235x_config_inhibit returns an error.
StartupAbortsAtFirstFailure ==
    /\ \A i \in DOMAIN steps_run :
          /\ i <= Len(ChgInitSteps)
          /\ steps_run[i].step = ChgInitSteps[i]
          /\ steps_run[i].rc # "OK"
                => /\ i = Len(steps_run)
                   /\ life = "chg_init_failed"
                   /\ probe_rc = steps_run[i].rc
    /\ life = "chg_init_failed"
          => /\ steps_run # << >>
             /\ steps_run[Len(steps_run)].rc \in {"EIO", "EINVAL"}
             /\ ~reg_charging_enable
             /\ ~psy_registered
             /\ irq_registered = {}
             /\ upd_work = "idle"
    /\ life \notin {"chg_init", "chg_init_failed"}
          => /\ Len(steps_run) = Len(ChgInitSteps)
             /\ \A i \in DOMAIN steps_run : steps_run[i].rc = "OK"
    /\ (chg_inhibit_thr_uv # -22
            /\ (chg_inhibit_thr_uv \div 1000) \notin {100, 200, 400, 600})
          => \A i \in DOMAIN steps_run :
                steps_run[i].step = "config_inhibit" => steps_run[i].rc # "OK"

\* a threshold of 300 mV stops the startup at smb235x_config_inhibit
StartupAbortsAtFirstFailureWitness ==
    /\ life = "chg_init_failed"
    /\ probe_rc = "EINVAL"
    /\ chg_inhibit_thr_uv = 300000
    /\ Len(steps_run) = 8
    /\ steps_run[8] = [step |-> "config_inhibit", rc |-> "EINVAL"]
    /\ ~reg_charging_enable

(***************************************************************************)
(* The property gets: every property of both sets is read, supported or    *)
(* not, with the cable in or out, the peers present or absent, a QC2 or a  *)
(* DCP charger, and every read and query allowed to fail.                  *)
(***************************************************************************)
PropApsdResults == {{"DCP_CHARGER_BIT"}, {"QC_2P0_BIT"}}

PropPeerUsbTypes == {"UT_PD"}

PropPeerCurrentsUa == {900000}

PropFaults ==
    {"power_path_read", "prop_read", "peer_prop", "bms_query",
     "apsd_result_read"}

InitProps ==
    /\ InitChip({MaxPulseCountMax})
    /\ InitPeer(PropPeerUsbTypes, PropPeerCurrentsUa)
    /\ faults = PropFaults
    /\ reg_power_path \in {{}, PowerPathBits}
    /\ reg_apsd_result \in PropApsdResults
    /\ reg_apsd_done = FALSE
    /\ IdleBatt
    /\ IdleEvt
    /\ IdleWq
    /\ IdleLife
    /\ fastchg_curr_ua = DEFAULT_FASTCHG_CURR_UA
    /\ reg_fcc = FccCode(DEFAULT_FASTCHG_CURR_UA)
    /\ bms_registered \in BOOLEAN
    /\ bms_psy \in {FALSE, bms_registered}
    /\ fcc_obs = NoFccObservation
    /\ icl_obs = NoIclObservation
    /\ get_obs = NoGetObservation
    /\ IdleRec

NextProps ==
    \/ \E prop \in UsbProps : smb235x_usb_get_prop(prop)
    \/ \E prop \in BattProps : smb235x_batt_get_prop(prop)
    \/ \E prop_changed \in BOOLEAN, from_tcpm \in BOOLEAN :
          smb235x_tcpm_notifier_cb(prop_changed, from_tcpm)
    \/ status_change_work
    \/ PowerPathChanges

SpecProps == InitProps /\ [][NextProps]_vars

\* C20: a property get returns success or the no-data error and nothing
\* else, and it returns the no-data error whenever a failed register read,
\* an absent peer, a failed peer query or an unsupported property left the
\* caller without a value.
GetErrorsAreNoData ==
    get_obs.set # "none"
        => /\ get_obs.rc \in {"OK", "ENODATA"}
           /\ get_obs.cause # "none" => get_obs.rc = "ENODATA"

(***************************************************************************)
(* The fuel-gauge values: callers set the two writable battery properties, *)
(* the periodic work reconciles the cached values with the fuel gauge,     *)
(* which may be present or not; every query and register write may fail.   *)
(***************************************************************************)
ReconFaults ==
    {"soc_query", "soc_write", "soc_update_write", "bms_query", "fcc_write",
     "fv_query", "fv_write"}

ReconFccInputsUa == {50000}

InitRecon ==
    /\ InitChip({MaxPulseCountMax})
    /\ NoPeer
    /\ faults = ReconFaults
    /\ reg_power_path = {}
    /\ reg_apsd_result = {}
    /\ reg_apsd_done = FALSE
    /\ IdleBatt
    /\ IdleEvt
    /\ IdleWq
    /\ IdleLife
    /\ IdleProp
    /\ IdleRec
    /\ fastchg_curr_ua = DEFAULT_FASTCHG_CURR_UA
    /\ reg_fcc = FccCode(DEFAULT_FASTCHG_CURR_UA)
    /\ bms_registered \in BOOLEAN
    /\ bms_psy = FALSE
    /\ fcc_obs = NoFccObservation
    /\ icl_obs = NoIclObservation

NextRecon ==
    \/ \E ua \in ReconFccInputsUa : BattSetFcc(ua)
    \/ \E uv \in FvInputsUv : BattSetFv(uv)
    \/ UpdateWorkStarts
    \/ smb235x_update_work

SpecRecon == InitRecon /\ [][NextRecon]_vars

\* C21: after a set of constant-charge-voltage-max or
\* constant-charge-current-max whose register write failed, the cached
\* value is the one from before the call.
SetFailureKeepsCache ==
    (set_obs.prop # "none" /\ Failed(set_obs.rc))
        => set_obs.after = set_obs.before

\* C22: the value pushed by a set of constant-charge-voltage-max or
\* constant-charge-current-max is the fuel gauge's value when its query
\* succeeded and the caller's value when the fuel gauge is absent or its
\* query failed; a successful push leaves the code of that value in the
\* register.
PushedValueIsPeerOrCaller ==
    /\ (set_obs.prop # "none" /\ set_obs.bms_rc = "OK")
          => set_obs.pushed = set_obs.bms_val
    /\ (set_obs.prop # "none" /\ set_obs.bms_rc # "OK")
          => set_obs.pushed = set_obs.caller
    /\ (set_obs.prop = "CONSTANT_CHARGE_CURRENT_MAX" /\ set_obs.rc = "OK")
          => reg_fcc = (((set_obs.pushed \div 1000) \div 50) + 1) % 256

\* the fuel gauge's query failed and the caller's 50 mA, which is not the
\* fuel gauge's value, was pushed
PushedValueIsPeerOrCallerWitness ==
    /\ set_obs.prop = "CONSTANT_CHARGE_CURRENT_MAX"
    /\ set_obs.bms_rc = "EIO"
    /\ set_obs.caller = 50000
    /\ set_obs.pushed = 50000
    /\ set_obs.bms_val # 50000
    /\ set_obs.rc = "OK"
    /\ reg_fcc = 2

\* a run of smb235x_update_work from its start to its end
CycleStep ==
    /\ upd_work \in {"running", "cancelling"}
    /\ upd_work' \in {"queued", "cancelled"}

\* what the claim lets one half of a cycle do, given its outcome
HalfReconciled(status, val, cached, reg, cachedAfter, regAfter, code) ==
    /\ status \in {"read_failed", "equal", "write_failed", "pushed"}
    /\ status = "pushed" => (cachedAfter = val /\ regAfter = code)
    /\ status # "pushed" => (cachedAfter = cached /\ regAfter = reg)
    /\ status = "equal" <=> (status # "read_failed" /\ cached = val
                             /\ status # "not_reached")

\* C25: in every cycle the fast-charge current and the float voltage are
\* each reconciled: a value read that differs is pushed and cached only if
\* the push succeeds, a failed read or an equal value writes nothing and
\* leaves the cache, and the float voltage is looked at whatever happened
\* to the fast-charge current.
ReconciledIndependently ==
    [][CycleStep =>
          /\ HalfReconciled(cyc_obs'.fcc, cyc_obs'.bms_fcc, fastchg_curr_ua,
                            reg_fcc, fastchg_curr_ua', reg_fcc',
                            (((cyc_obs'.bms_fcc \div 1000) \div 50) + 1) % 256)
          /\ HalfReconciled(cyc_obs'.fv, cyc_obs'.bms_fv, float_volt_uv,
                            reg_fv, float_volt_uv', reg_fv',
                            (((cyc_obs'.bms_fv \div 1000) - 7200) \div 20)
                                % 256)]_vars

\* C29 as stated: a cycle whose state-of-charge step failed reads nothing
\* and writes nothing for the fast-charge current and the float voltage.
SocFailureAbortsCycle ==
    (cyc_obs.ran /\ cyc_obs.soc # "ok")
        => (cyc_obs.fcc = "not_reached" /\ cyc_obs.fv = "not_reached")

\* C29: a failure of the state-of-charge step ends that step only; the
\* fast-charge current is read from the fuel gauge in every cycle, whatever
\* the outcome of the state-of-charge step.
SocFailureEndsStepOnly ==
    cyc_obs.ran
        => cyc_obs.fcc \in {"read_failed", "equal", "write_failed", "pushed"}

\* the write of the state-of-charge register failed and the fast-charge
\* current and the float voltage of the fuel gauge were pushed in the same
\* cycle
SocFailureEndsStepOnlyWitness ==
    /\ cyc_obs.ran
    /\ cyc_obs.soc = "write_failed"
    /\ cyc_obs.fcc = "pushed"
    /\ cyc_obs.fv = "pushed"
    /\ fastchg_curr_ua = cyc_obs.bms_fcc
    /\ float_volt_uv = cyc_obs.bms_fv

\* C23: a detection whose read of the power-path status failed returns an
\* error, as it does for every register read it needs; it does not return
\* success with the cable taken as out.
DetectFailsOnFailedRead ==
    (det_obs.ran /\ det_obs.pp_rc # "OK") => Failed(det_obs.rc)

(***************************************************************************)
(* The periodic work from its first scheduling to smb235x_remove: the fuel *)
(* gauge is present or not, every query and register write of a cycle may  *)
(* fail, and smb235x_remove may start at any time.  A queued work is run   *)
(* by the kernel's workqueue once its delay has passed, and a running work *)
(* function returns: both steps are weakly fair.                           *)
(***************************************************************************)
InitCycle ==
    /\ InitChip({MaxPulseCountMax})
    /\ NoPeer
    /\ faults = ReconFaults
    /\ reg_power_path = {}
    /\ reg_apsd_result = {}
    /\ reg_apsd_done = FALSE
    /\ IdleBatt
    /\ IdleEvt
    /\ IdleWq
    /\ IdleProp
    /\ IdleRec
    /\ fastchg_curr_ua = DEFAULT_FASTCHG_CURR_UA
    /\ reg_fcc = FccCode(DEFAULT_FASTCHG_CURR_UA)
    /\ bms_registered \in BOOLEAN
    /\ bms_psy = FALSE
    /\ fcc_obs = NoFccObservation
    /\ icl_obs = NoIclObservation
    /\ life = "initial_status"
    /\ chg_init_idx = Len(ChgInitSteps)
    /\ steps_run = [i \in DOMAIN ChgInitSteps |->
                        [step |-> ChgInitSteps[i], rc |-> "OK"]]
    /\ probe_rc = "none"
    /\ chg_inhibit_thr_uv = DT_ABSENT
    /\ psy_registered = TRUE
    /\ irq_registered = LifeIrqs
    /\ irq_enabled = LifeIrqs
    /\ upd_work = "idle"
    /\ remove_idx = 1
    /\ refs_put = {}

NextCycle ==
    \/ InitialStatusDetect
    \/ InitialStatusHandler
    \/ InitialStatusSchedule
    \/ UpdateWorkStarts
    \/ smb235x_update_work
    \/ RemoveStarts
    \/ \E irq \in LifeIrqs : RemoveDisableIrq(irq)
    \/ RemoveFreeInterruptsDone
    \/ RemoveCancelBegins
    \/ RemoveCancelDone
    \/ RemovePutBms
    \/ RemovePutTcpm

SpecCycle ==
    /\ InitCycle
    /\ [][NextCycle]_vars
    /\ WF_vars(UpdateWorkStarts)
    /\ WF_vars(smb235x_update_work)

\* C24: a run of the periodic work that was not cancelled ends with the
\* work queued again, whatever failed in it; a queued work eventually runs
\* unless it is cancelled, and a running one eventually ends.
ReconcilerKeepsRunning ==
    /\ [][(upd_work = "running" /\ upd_work' # "running")
             => upd_work' \in {"queued", "cancelling"}]_vars
    /\ (upd_work = "queued") ~> (upd_work \in {"running", "cancelled"})
    /\ (upd_work = "running") ~> (upd_work \in {"queued", "cancelled"})

\* a cycle in which the state-of-charge write and the read of the
\* fast-charge current failed is over and the next cycle is running
ReconcilerKeepsRunningWitness ==
    /\ upd_work = "running"
    /\ cyc_obs.ran
    /\ cyc_obs.soc = "write_failed"
    /\ cyc_obs.fcc = "read_failed"

\* the three writes of smb235x_set_icl_sw in their order
IclWriteOrder ==
    << "USBIN_LOAD_CFG_REG", "USB_CMD_ICL_OVERRIDE_REG",
       "USBIN_CURRENT_LIMIT_CFG_REG" >>

\* C26: the writes of a set of the input current limit are a prefix of
\* override-after-APSD bit, ICL-override bit, limit code: the code is
\* written only after both override bits were written with success, and a
\* failed override write leaves the code register unwritten and returns
\* the error.
CodeAfterOverrideBits ==
    icl_obs.ran
        => /\ Len(icl_obs.writes) <= 3
           /\ \A i \in 1..Len(icl_obs.writes) :
                 icl_obs.writes[i] = IclWriteOrder[i]
           /\ Len(icl_obs.writes) < 2 => icl_obs.rc # "OK"
           /\ icl_obs.rc = "OK" <=> Len(icl_obs.writes) = 3
           /\ Len(icl_obs.writes) = 3
                 => /\ reg_load_cfg_override
                    /\ reg_icl_override
                    /\ reg_current_limit = (icl_obs.ma \div 50) % 256

\* the first override bit was written, the second write failed, the code
\* register still holds its value from before
CodeAfterOverrideBitsWitness ==
    /\ icl_obs.ran
    /\ icl_obs.writes = << "USBIN_LOAD_CFG_REG" >>
    /\ icl_obs.rc = "EIO"
    /\ icl_obs.ma = 255
    /\ reg_load_cfg_override
    /\ ~reg_icl_override
    /\ reg_current_limit # 5

\* C27: a call of smb235x_set_hvdcp3_voltage that went through its pulse
\* loop without interference has issued its pulses relative to the base it
\* found: (base - target) / 200000 decrements and no increment for a target
\* below the base, and no pulse at all for a target equal to the base.
PulsesRelativeToBase ==
    \A c \in Callers :
        (/\ pc[c] \in {"store_v", "store_b", "unlock"}
         /\ ~interfered[c]
         /\ voltage_uv[c] <= pre_base[c])
            => /\ inc_issued[c] = 0
               /\ dec_issued[c] = (pre_base[c] - voltage_uv[c]) \div 200000

\* a step of the source-change handler that went through the detection
\* and then gave up, or ended without the limit code written: the handler
\* is the only operation that leaves every caller's position and the
\* pending flag of the recompute work alone and ends with such an
\* observation
FailedHandlingStep ==
    /\ pc' = pc
    /\ pc["irq"] = "idle"
    /\ work_pending' = work_pending
    /\ det_obs'.ran
    /\ \/ apsd_obs'.stage = "aborted"
       \/ apsd_obs'.stage = "done" /\ ~apsd_obs'.wrote

PdApsdResults == {{"DCP_CHARGER_BIT"}, {"QC_3P0_BIT"}}

PdPeerUsbTypes == {"UT_C", "UT_PD"}

PdPeerCurrentsUa == {900000}

PdSdpCurrentsUa == {900000}

PdProps == {"ONLINE", "REAL_TYPE"}

PdFaults == {"peer_usb_type"}

InitPd ==
    /\ IdleExt
    /\ InitChip({MaxPulseCountMax})
    /\ InitPeer(PdPeerUsbTypes, PdPeerCurrentsUa)
    /\ faults = PdFaults
    /\ reg_power_path = PowerPathBits
    /\ reg_apsd_result \in PdApsdResults
    /\ reg_apsd_done = TRUE

NextPd ==
    \/ smb235x_usb_source_change_irq_handler
    \/ HvStepOfApsdDone
    \/ ApsdDoneAfterHvdcp3
    \/ UsbGetRealType
    \/ \E prop \in PdProps : smb235x_usb_get_prop(prop)
    \/ \E ua \in PdSdpCurrentsUa : UsbSetSdpCurrentMax(ua)
    \/ PowerPathChanges
    \/ PeerChanges(PdPeerUsbTypes, PdPeerCurrentsUa)
    \/ \E prop_changed \in BOOLEAN, from_tcpm \in BOOLEAN :
          smb235x_tcpm_notifier_cb(prop_changed, from_tcpm)
    \/ status_change_work

SpecPd == InitPd /\ [][NextPd]_vars

\* a run of status_change_work: the worker alone clears the pending flag
RecomputeStep == work_pending /\ ~work_pending'

\* C30: pd_active changes in a run of the recompute work only, and then to
\* whether the peer's usb type is something other than Type-C; a run that
\* leaves pd_active false programs no input current limit.
PdActiveOnlyByRecompute ==
    [][/\ pd_active' # pd_active
             => /\ RecomputeStep
                /\ tcpm_psy'
                /\ pd_active' = (tcpm_usb_type # "UT_C")
       /\ (RecomputeStep /\ ~pd_active')
             => /\ reg_load_cfg_override' = reg_load_cfg_override
                /\ reg_icl_override' = reg_icl_override
                /\ reg_current_limit' = reg_current_limit]_vars

\* the recompute work has set pd_active, the peer has gone back to Type-C
\* since, and a detection-done handling went through with pd_active still
\* set
PdActiveOnlyByRecomputeWitness ==
    /\ pd_active
    /\ tcpm_usb_type = "UT_C"
    /\ ~work_pending
    /\ apsd_obs.stage = "done"
    /\ apsd_obs.pd
    /\ det_obs.ran

\* the battery properties the claim on the fuel-gauge fallback names
BmsProxiedProps == {"TEMP", "CAPACITY", "CURRENT_NOW", "VOLTAGE_NOW", "HEALTH"}

\* a battery get of one of them went without an answer of the fuel gauge
BmsGaveNothing ==
    /\ get_obs.set = "batt"
    /\ get_obs.prop \in BmsProxiedProps
    /\ get_obs.peer \in {"peer_absent", "peer_query"}

\* C31 as stated: a battery get of temperature, capacity, current-now,
\* voltage-now or health that got no answer from the fuel gauge succeeds with
\* a local value, provided the local register read succeeded.
BmsGetsFallBack ==
    (BmsGaveNothing /\ get_obs.cause # "register_read") => get_obs.rc = "OK"

\* C31: of the battery gets answered by the fuel gauge, health alone falls
\* back to a local value (and succeeds when the local register read does);
\* temperature, capacity, current-now and voltage-now return the no-data
\* error when the fuel gauge is absent or its query fails.
HealthAloneFallsBack ==
    BmsGaveNothing
        => IF get_obs.prop = "HEALTH"
           THEN get_obs.cause # "register_read" => get_obs.rc = "OK"
           ELSE get_obs.rc = "ENODATA"

HealthAloneFallsBackWitness ==
    /\ BmsGaveNothing
    /\ get_obs.prop = "HEALTH"
    /\ get_obs.peer = "peer_query"
    /\ get_obs.rc = "OK"

\* the charger types the autonomous detection and the offline branch of
\* smb235x_get_chg_type assign: Unknown, SDP, CDP, DCP, Float, HVDCP2, HVDCP3
AutonomousChargerTypes ==
    {"UNKNOWN", "USB", "USB_CDP", "USB_DCP", "USB_FLOAT", "USB_HVDCP",
     "USB_HVDCP_3"}

\* C32: charger_type is always one of Unknown, SDP, CDP, DCP, Float, HVDCP2
\* and HVDCP3, and it changes only in a step in which smb235x_get_chg_type
\* ran and returned success.
ChargerTypeDetectedOnly ==
    [][/\ charger_type' \in AutonomousChargerTypes
       /\ charger_type' # charger_type
             => det_obs'.ran /\ det_obs'.rc = "OK"]_vars

(***************************************************************************)
(* Termination of smb235x_set_hvdcp3_voltage.  A caller that can take a    *)
(* step takes one (the function has no wait but mutex_lock), and the       *)
(* kernel mutex hands the lock to each waiter in turn, so a waiter that    *)
(* finds the lock free again and again gets it.                            *)
(***************************************************************************)
\* any step of caller c inside smb235x_set_hvdcp3_voltage
HvStepOf(c) ==
    \/ HvLock(c)
    \/ HvCalcUp(c)
    \/ HvCalcDown(c)
    \/ HvPulseInc(c)
    \/ HvPulseDec(c)
    \/ HvLoopExit(c)
    \/ HvStoreVoltage(c)
    \/ HvStoreBase(c)
    \/ HvUnlock(c)

FairTargetsUv == {5000000, 5500000}

InitHvdcpFair ==
    /\ IdleExt
    /\ InitChip({MaxPulseCountMax})
    /\ NoPeer
    /\ faults = {"pulse_write"}
    /\ reg_power_path = PowerPathBits
    /\ reg_apsd_result = {"QC_3P0_BIT"}
    /\ reg_apsd_done = TRUE

\* one user caller and the interrupt handler contend for the lock
NextHvdcpFair ==
    \/ HvStep
    \/ \E v \in FairTargetsUv : smb235x_set_prop_usb_voltage_now("u1", v)
    \/ smb235x_usb_source_change_irq_handler
    \/ ApsdDoneAfterHvdcp3
    \/ ApsdResultChanges(HvdcpApsdResults)

SpecHvdcpFair ==
    /\ InitHvdcpFair
    /\ [][NextHvdcpFair]_vars
    /\ \A c \in Callers : WF_vars(HvStepOf(c)) /\ SF_vars(HvLock(c))

\* C33: while a caller holds the lock and is about to compute its pulse
\* count, 5.0 V <= base <= hvdcp3_voltage_uv; no pulse counter is ever
\* negative; a caller outside the function does not hold the lock; and every
\* call of smb235x_set_hvdcp3_voltage returns, whatever the detection-done
\* handling does to the base meanwhile.
PulseCountNeverNegative ==
    /\ [](\A c \in Callers :
              /\ pc[c] \in {"calc_up", "calc_down"}
                    => /\ BASED_VOLTAGE_UV <= based_hvdcp_voltage_uv
                       /\ based_hvdcp_voltage_uv <= hvdcp3_voltage_uv
              /\ hvdcp_pulse_count[c] >= 0
              /\ pc[c] \notin InCall => hvdcp_update_voltage_lock # c)
    /\ \A c \in Callers : (pc[c] \in InCall) ~> (pc[c] \notin InCall)

\* a caller took the lock with the base above 5.0 V and, before it computed
\* its count, a detection-done handling reset the base
PulseCountNeverNegativeWitness ==
    \E c \in Callers :
        /\ pc[c] \in {"calc_up", "calc_down"}
        /\ pre_base[c] > BASED_VOLTAGE_UV
        /\ based_hvdcp_voltage_uv = BASED_VOLTAGE_UV

(***************************************************************************)
(* smb235x_batt_set_prop and smb235x_update_fv_fcc statement by statement. *)
(* Neither takes a lock: the property set runs in its caller's context and *)
(* the reconciler in the system workqueue, so the statements of the two    *)
(* interleave.  A step is one access to chip->fastchg_curr_ua,             *)
(* chip->float_volt_uv or a register, with the local work before it.       *)
(***************************************************************************)
Halves == {"fcc", "fv"}

\* the fault names of the fuel-gauge query and of the register write of a half
QueryFault(h) == IF h = "fcc" THEN "bms_query" ELSE "fv_query"

WriteFault(h) == IF h = "fcc" THEN "fcc_write" ELSE "fv_write"

\* what the fuel gauge answers for a half
BmsValues(h) == IF h = "fcc" THEN BmsFccUa ELSE BmsFvUv

\* chip->fastchg_curr_ua or chip->float_volt_uv
CachedValue(h) == IF h = "fcc" THEN fastchg_curr_ua ELSE float_volt_uv

\* the cached value of half h becomes v
StoreCached(h, v) ==
    IF h = "fcc"
    THEN fastchg_curr_ua' = v /\ UNCHANGED float_volt_uv
    ELSE float_volt_uv' = v /\ UNCHANGED fastchg_curr_ua

\* smb235x_set_fcc or smb235x_set_fv with value v
WriteRegister(h, v, w_ok) ==
    /\ IF h = "fcc"
       THEN reg_fcc' = smb235x_set_fcc(v, w_ok).reg /\ UNCHANGED reg_fv
       ELSE reg_fv' = smb235x_set_fv(v, w_ok).reg /\ UNCHANGED reg_fcc
    /\ write_failed' = (write_failed \/ ~w_ok)

\* what no statement of the two functions changes
StepFrame ==
    UNCHANGED << corev, ext_but_recv, bms_registered, fcc_obs, icl_obs,
                 set_obs, cyc_obs >>

\* smb235x_batt_set_prop, lines 1665-1675 or 1681-1685: the fuel gauge is
\* asked and its value, or the caller's, is stored in the chip structure
BattSetStores(h, val) ==
    /\ set_pc = "idle"
    /\ \E q_ok \in Ok(QueryFault(h)), bv \in BmsValues(h) :
          LET b == smb235x_get_prop_from_bms(q_ok)
          IN  /\ bms_psy' = b.psy
              /\ StoreCached(h, BattSetValue(b.rc, bv, val))
    /\ set_pc' = h
    /\ StepFrame
    /\ UNCHANGED << reg_fcc, reg_fv, reg_soc, rec_pc, rec_val, write_failed >>

\* lines 1677 or 1687: the stored value is read back and written to the
\* register, and the function returns
BattSetPushes ==
    /\ set_pc \in Halves
    /\ \E w_ok \in Ok(WriteFault(set_pc)) :
          WriteRegister(set_pc, CachedValue(set_pc), w_ok)
    /\ set_pc' = "idle"
    /\ StepFrame
    /\ UNCHANGED << fastchg_curr_ua, float_volt_uv, bms_psy, reg_soc, rec_pc,
                    rec_val >>

\* where the worker goes after half h, and after a return in the middle
AfterHalf(h) == IF h = "fcc" THEN "fv_read" ELSE "idle"

\* lines 1859-1864 or 1872-1877: the fuel gauge is asked and its value
\* compared with the cached one.  The fcc read is the first statement of
\* smb235x_update_fv_fcc, which smb235x_update_work calls after
\* smb235x_update_soc.
ReconcilerReads(h) ==
    /\ rec_pc = (IF h = "fcc" THEN "idle" ELSE "fv_read")
    /\ \E q_ok \in Ok(QueryFault(h)), bv \in BmsValues(h), pct \in BmsSocPct :
          LET b == smb235x_get_prop_from_bms(q_ok)
              s == smb235x_update_soc(TRUE, pct, TRUE, TRUE)
              st == ReconcileStatus(q_ok, CachedValue(h), bv, TRUE)
          IN  /\ bms_psy' = b.psy
              /\ reg_soc' = IF h = "fcc" THEN s.reg ELSE reg_soc
              /\ rec_pc' = CASE st = "read_failed" -> "idle"
                             [] st = "equal" -> AfterHalf(h)
                             [] OTHER -> h \o "_push"
              /\ rec_val' = IF st = "pushed" THEN bv ELSE 0
    /\ StepFrame
    /\ UNCHANGED << fastchg_curr_ua, float_volt_uv, reg_fcc, reg_fv, set_pc,
                    write_failed >>

\* lines 1865-1867 or 1878-1880: the register write
ReconcilerPushes(h) ==
    /\ rec_pc = h \o "_push"
    /\ \E w_ok \in Ok(WriteFault(h)) :
          /\ WriteRegister(h, rec_val, w_ok)
          /\ rec_pc' = IF w_ok THEN h \o "_store" ELSE "idle"
          /\ rec_val' = IF w_ok THEN rec_val ELSE 0
    /\ StepFrame
    /\ UNCHANGED << fastchg_curr_ua, float_volt_uv, bms_psy, reg_soc, set_pc >>

\* lines 1868 or 1881: the value read from the fuel gauge is cached
ReconcilerStores(h) ==
    /\ rec_pc = h \o "_store"
    /\ StoreCached(h, rec_val)
    /\ rec_pc' = AfterHalf(h)
    /\ rec_val' = 0
    /\ StepFrame
    /\ UNCHANGED << reg_fcc, reg_fv, bms_psy, reg_soc, set_pc, write_failed >>

RaceFaults == {"bms_query", "fv_query", "fcc_write"}

InitRace ==
    /\ InitChip({MaxPulseCountMax})
    /\ NoPeer
    /\ faults = RaceFaults
    /\ reg_power_path = {}
    /\ reg_apsd_result = {}
    /\ reg_apsd_done = FALSE
    /\ IdleBatt
    /\ IdleEvt
    /\ IdleWq
    /\ IdleLife
    /\ IdleProp
    /\ IdleRec
    /\ fastchg_curr_ua = DEFAULT_FASTCHG_CURR_UA
    /\ reg_fcc = FccCode(DEFAULT_FASTCHG_CURR_UA)
    /\ bms_registered = TRUE
    /\ bms_psy = FALSE
    /\ fcc_obs = NoFccObservation
    /\ icl_obs = NoIclObservation

NextRace ==
    \/ \E ua \in ReconFccInputsUa : BattSetStores("fcc", ua)
    \/ \E uv \in FvInputsUv : BattSetStores("fv", uv)
    \/ BattSetPushes
    \/ \E h \in Halves : ReconcilerReads(h)
    \/ \E h \in Halves : ReconcilerPushes(h)
    \/ \E h \in Halves : ReconcilerStores(h)

SpecRace == InitRace /\ [][NextRace]_vars

\* C34: when no battery property set and no reconciler cycle is in progress
\* and no register write has failed, the fast-charge-current register holds
\* the code of the cached fast-charge current and the float-voltage register
\* the code of the cached float voltage.
CacheMatchesRegisters ==
    (set_pc = "idle" /\ rec_pc = "idle" /\ ~write_failed)
        => /\ reg_fcc = FccCode(fastchg_curr_ua)
           /\ reg_fv = FvCode(float_volt_uv)

\* C35: a run of the recompute work that changes the current-limit register
\* writes the code of the CURRENT_MAX the negotiation peer holds; a run whose
\* CURRENT_MAX query failed has no such value and leaves the register alone.
PeerIclFromPeerAnswer ==
    [][(RecomputeStep /\ reg_current_limit' # reg_current_limit)
          => reg_current_limit'
                = IclCode(tcpm_current_max \div MICRO_TO_MILLI)]_vars

(***************************************************************************)
(* smb235x_remove beside the notifier of the negotiation peer: the driver  *)
(* after a probe that found both peers and registered the notifier, with   *)
(* notifications arriving and the recompute work running at any time.      *)
(***************************************************************************)
InitShutdown ==
    /\ InitChip({MaxPulseCountMax})
    /\ tcpm_registered = TRUE
    /\ tcpm_psy = TRUE
    /\ nb_registered = TRUE
    /\ tcpm_usb_type = "UT_PD"
    /\ tcpm_current_max \in PeerCurrentsUa
    /\ faults = {"peer_usb_type"}
    /\ reg_power_path \in {{}, PowerPathBits}
    /\ reg_apsd_result = {}
    /\ reg_apsd_done = FALSE
    /\ IdleBatt
    /\ IdleEvt
    /\ IdleWq
    /\ IdleProp
    /\ IdleRec
    /\ fastchg_curr_ua = DEFAULT_FASTCHG_CURR_UA
    /\ reg_fcc = FccCode(DEFAULT_FASTCHG_CURR_UA)
    /\ bms_registered = TRUE
    /\ bms_psy = TRUE
    /\ fcc_obs = NoFccObservation
    /\ icl_obs = NoIclObservation
    /\ life = "initial_status"
    /\ chg_init_idx = Len(ChgInitSteps)
    /\ steps_run = [i \in DOMAIN ChgInitSteps |->
                        [step |-> ChgInitSteps[i], rc |-> "OK"]]
    /\ probe_rc = "none"
    /\ chg_inhibit_thr_uv = DT_ABSENT
    /\ psy_registered = TRUE
    /\ irq_registered = LifeIrqs
    /\ irq_enabled = LifeIrqs
    /\ upd_work = "idle"
    /\ remove_idx = 1
    /\ refs_put = {}

NextShutdown ==
    \/ NextCycle
    \/ \E prop_changed \in BOOLEAN, from_tcpm \in BOOLEAN :
          smb235x_tcpm_notifier_cb(prop_changed, from_tcpm)
    \/ status_change_work

SpecShutdown == InitShutdown /\ [][NextShutdown]_vars

\* C36: once smb235x_remove has released the reference to the negotiation
\* peer, no recompute work is queued and none can run.
NoRecomputeAfterRelease ==
    "tcpm" \in refs_put => (~work_pending /\ ~ENABLED status_change_work)

\* C37: after a detection that returned success with usb online, read the
\* autonomous-detection result (no usable peer type) and found no result bit
\* set, charger_type and usb_type are Unknown.
NoResultBitMeansUnknown ==
    (/\ det_obs.ran
     /\ det_obs.rc = "OK"
     /\ det_obs.online
     /\ det_obs.read_apsd
     /\ reg_apsd_result \cap APSD_RESULT_STATUS_MASK = {})
        => /\ charger_type = "UNKNOWN"
           /\ usb_type = "UT_UNKNOWN"

\* C38: after a successful set of the usb current-max property to v
\* microamps the current-limit register holds the code (v / 1000) / 50.
IclCodeOfMicroamps ==
    (icl_obs.ran /\ icl_obs.rc = "OK")
        => reg_current_limit
              = (icl_obs.ua \div MICRO_TO_MILLI) \div CURRENT_STEP_MA

=============================================================================
